---- MODULE Spec2Model ----
(***************************************************************************)
(* dotMD hybrid retrieval core: the service facade (index / search /       *)
(* status / clear) over the metadata, vector, BM25 and graph stores, the   *)
(* graph search engine, Reciprocal Rank Fusion and result hydration.       *)
(*                                                                         *)
(* Identifiers.  Every id the code handles is a string.  An id is modelled *)
(* as a pair <<base, k>>: k >= 0 stands for md5(base ":" k), the chunk id  *)
(* of chunk k of file base; k = -1 stands for the plain string base (a     *)
(* file path or an entity name).  md5 is taken to be injective.            *)
(*                                                                         *)
(* Scores.  RRF scores are exact rationals <<num, den>>; the code uses     *)
(* IEEE doubles.  Graph scores are scaled by 4 (hop 1 = 4, hop 2 = 1).     *)
(***************************************************************************)
EXTENDS Integers, Sequences, FiniteSets, TLC

\* ----------------------------------------------------------------------
\* Bounds
\* ----------------------------------------------------------------------
MaxChunksPerFile == 1
MaxTopK == 3
\* Number of index() and clear() calls made on the service in one behaviour.
MaxWrites == 2
\* fuse_results on its own: number of distinct ids, longest engine list.
MaxFuseIds == 3
MaxListLen == 2
\* fuse_results on the lists of two engines: distinct ids, longest list.
MaxPairIds == 4
MaxPairLen == 3
\* Threads that call into one service.
MaxThreads == 2
\* Words of a query handed to the expander.
MaxQueryWords == 2
\* chunk_file: sections of a document, sentences of a section, and the
\* largest max_tokens and overlap_tokens.
MaxSections == 2
MaxSentences == 3
MaxMaxTokens == 3
MaxOverlapTokens == 2
\* _split_with_overlap: sentences of the text, largest max_tokens and
\* overlap_tokens.
MaxSplitSentences == 4
MaxSplitTokens == 4
MaxSplitOverlap == 4
\* Heading levels and sections of the documents of SpecHierarchy.
MaxHeadingLevel == 3
MaxHeadedSections == 3
MaxRerankChunks == 2

\* ----------------------------------------------------------------------
\* Settings
\* ----------------------------------------------------------------------
max_chunk_tokens == 512
chunk_overlap_tokens == 50
fusion_k == 60
rerank_pool_size == 20
score_threshold == -8
min_length == 100

\* ----------------------------------------------------------------------
\* Universe of the bounded corpus
\* ----------------------------------------------------------------------
\* Markdown files that a directory may hold, in sorted path order.
FileSeq == <<"a.md", "b.md">>
Files == {FileSeq[i] : i \in 1..Len(FileSeq)}
\* The one entity name the documents may mention (wikilink / frontmatter).
EntityName == "E"

chunk_id(f, i) == <<f, i>>
PathId(f) == <<f, -1>>
NameId(e) == <<e, -1>>

ChunkIds == {chunk_id(f, i) : f \in Files, i \in 0..(MaxChunksPerFile - 1)}
AllIds == ChunkIds \cup {PathId(f) : f \in Files} \cup {NameId(EntityName)}

None == "None"
Labels == <<"File", "Section", "Entity", "Tag">>
LabelSet == {"File", "Section", "Entity", "Tag"}

\* ----------------------------------------------------------------------
\* Sequence helpers
\* ----------------------------------------------------------------------
Range(s) == {s[i] : i \in 1..Len(s)}
Take(s, n) == IF n >= Len(s) THEN s ELSE IF n <= 0 THEN <<>> ELSE SubSeq(s, 1, n)
Min(a, b) == IF a <= b THEN a ELSE b
\* The sequence f as an explicit tuple: TLC evaluates it once, where it
\* would evaluate a function constructor again at every application.
Tuple(f) == f \o <<>>
Reverse(s) == Tuple([i \in 1..Len(s) |-> s[Len(s) + 1 - i]])
IndexOf(s, x) == CHOOSE i \in 1..Len(s) : s[i] = x
IsInjective(s) == \A i, j \in 1..Len(s) : s[i] = s[j] => i = j
\* Python list(dict.fromkeys(s)): first occurrences, in order.
RECURSIVE Dedup(_)
Dedup(s) ==
    IF s = <<>> THEN <<>>
    ELSE LET front == Dedup(SubSeq(s, 1, Len(s) - 1))
             x == s[Len(s)]
         IN IF x \in Range(front) THEN front ELSE Append(front, x)
\* Python sorted(..., reverse=True) / list.sort: a stable sort that puts a
\* before b when Greater(a, b); equal keys keep their input order.
StableSortDesc(s, Greater(_, _)) ==
    LET idx == Tuple([i \in 1..Len(s) |-> i])
        sorted == SortSeq(idx, LAMBDA i, j :
                     Greater(s[i], s[j]) \/ (~Greater(s[j], s[i]) /\ i < j))
    IN Tuple([k \in 1..Len(s) |-> s[sorted[k]]])

\* A fixed enumeration of all ids, and the row orders a store or a model may
\* produce over them (ascending or descending in that enumeration).
FileChunkSeq(f) == [i \in 1..MaxChunksPerFile |-> chunk_id(f, i - 1)]
RECURSIVE Flatten(_)
Flatten(ss) == IF ss = <<>> THEN <<>> ELSE ss[1] \o Flatten(Tail(ss))
IdSeq ==
    Flatten([i \in 1..Len(FileSeq) |-> FileChunkSeq(FileSeq[i])])
    \o [i \in 1..Len(FileSeq) |-> PathId(FileSeq[i])]
    \o <<NameId(EntityName)>>
Orders == {IdSeq, Reverse(IdSeq)}
\* The members of S as a sequence in the order ord.
InOrder(ord, S) == SelectSeq(ord, LAMBDA x : x \in S)

\* ----------------------------------------------------------------------
\* State
\* ----------------------------------------------------------------------
VARIABLES
    chunks,        \* metadata store: chunk ids of the rows of table chunks
    stats,         \* metadata store: the stats row, or None
    vectors,       \* vector store: chunk ids of the table's rows, or None
    bm25_file,     \* persisted BM25 index: its chunk_ids list, or None
    nodes,         \* graph store: label -> ids of the nodes of that table
    edges,         \* graph store: set of <<src label, src, tgt label, tgt>>
    acronyms,      \* TRUE iff the acronym dictionary file exists
    last,          \* the call the caller is in, with what it returned
    last_write,    \* history: how the most recent index() or clear() ended
    writes,        \* history: number of index() and clear() calls so far
    settings,      \* the Settings the service was constructed with
    _model,        \* engine object -> TRUE iff its _model is not None
    pc,            \* thread -> where it is in _load_model, and of which engine
    constructed    \* history: model kind -> number of models constructed

vars == <<chunks, stats, vectors, bm25_file, nodes, edges, acronyms, last,
          last_write, writes, settings, _model, pc, constructed>>

NoNodes == [l \in LabelSet |-> {}]

\* The objects that load a model lazily: the SemanticSearchEngine of the
\* pipeline, the SemanticSearchEngine of the service, and the Reranker.
Engines == {"pipeline._semantic_engine", "service._semantic_engine",
            "service._reranker"}
ModelKind(engine) ==
    IF engine = "service._reranker" THEN "CrossEncoder" ELSE "SentenceTransformer"
ModelKinds == {ModelKind(e) : e \in Engines}
Threads == 1..MaxThreads
Idle == [at |-> "idle", engine |-> None]
\* Nothing loaded, no thread inside _load_model.
NotLoaded ==
    /\ _model = [e \in Engines |-> FALSE]
    /\ pc = [t \in Threads |-> Idle]
    /\ constructed = [k \in ModelKinds |-> 0]

\* ----------------------------------------------------------------------
\* Graph store
\* ----------------------------------------------------------------------
_REL_TABLE_MAP ==
    { <<"File", "Section">>, <<"Section", "Section">>, <<"Section", "Entity">>,
      <<"Section", "Tag">>, <<"Entity", "Entity">>, <<"File", "Tag">>,
      <<"File", "Entity">> }

_find_node_label(ns, id) ==
    IF \E i \in 1..Len(Labels) : id \in ns[Labels[i]]
    THEN Labels[CHOOSE i \in 1..Len(Labels) :
                    /\ id \in ns[Labels[i]]
                    /\ \A j \in 1..(i - 1) : id \notin ns[Labels[j]]]
    ELSE None

add_node(ns, label, id) == [ns EXCEPT ![label] = @ \cup {id}]

\* MERGE on (src, tgt, rel table); skipped when an endpoint is not a node or
\* the label pair has no relationship table.
add_edge(ns, es, source_id, target_id) ==
    LET src_label == _find_node_label(ns, source_id)
        tgt_label == _find_node_label(ns, target_id)
    IN IF src_label = None \/ tgt_label = None THEN es
       ELSE IF <<src_label, tgt_label>> \notin _REL_TABLE_MAP THEN es
       ELSE es \cup {<<src_label, source_id, tgt_label, target_id>>}

RECURSIVE add_edges(_, _, _)
add_edges(ns, es, rels) ==
    IF rels = <<>> THEN es
    ELSE add_edges(ns, add_edge(ns, es, rels[1][1], rels[1][2]), Tail(rels))

\* Nodes adjacent to node n = <<label, id>> by one edge in either direction.
Adjacent(es, n) ==
    {<<e[3], e[4]>> : e \in {x \in es : x[1] = n[1] /\ x[2] = n[2]}}
    \cup {<<e[1], e[2]>> : e \in {x \in es : x[3] = n[1] /\ x[4] = n[2]}}

RECURSIVE Within(_, _, _)
Within(es, S, hops) ==
    IF hops = 0 THEN S
    ELSE Within(es, S \cup UNION {Adjacent(es, n) : n \in S}, hops - 1)

\* MATCH (a)-[r* 1..max_hops]-(b) RETURN DISTINCT b.id, label(b), minus the
\* rows whose id is node_id: the rows as a set of <<label, id>>.
get_neighbors(ns, es, node_id, max_hops) ==
    LET src_label == _find_node_label(ns, node_id)
    IN IF src_label = None THEN {}
       ELSE LET start == <<src_label, node_id>>
                first == Adjacent(es, start)
                reach == Within(es, first, max_hops - 1)
            IN {b \in reach : b[2] # node_id}


\* ----------------------------------------------------------------------
\* Exact rational scores <<num, den>>, den > 0
\* ----------------------------------------------------------------------
Zero == <<0, 1>>
\* Variant: a + n, the rank itself where the code adds its reciprocal.
AddRank(a, n) == <<a[1] + n * a[2], a[2]>>
\* a + 1/n
AddReciprocal(a, n) == <<a[1] * n + a[2], a[2] * n>>
\* Sign of n1/d1 - n2/d2 for non-negative fractions, by continued fractions
\* (no product of the two denominators is ever formed).
RECURSIVE FracCmp(_, _, _, _)
FracCmp(n1, d1, n2, d2) ==
    LET q1 == n1 \div d1
        q2 == n2 \div d2
        r1 == n1 % d1
        r2 == n2 % d2
    IN IF q1 # q2 THEN (IF q1 > q2 THEN 1 ELSE -1)
       ELSE IF r1 = 0 /\ r2 = 0 THEN 0
       ELSE IF r1 = 0 THEN -1
       ELSE IF r2 = 0 THEN 1
       ELSE FracCmp(d2, r2, d1, r1)
ScoreGreater(a, b) == FracCmp(a[1], a[2], b[1], b[2]) = 1
ScoreEqual(a, b) == FracCmp(a[1], a[2], b[1], b[2]) = 0

\* ----------------------------------------------------------------------
\* Fusion (search/fusion.py)
\* ----------------------------------------------------------------------
\* ranked_lists is the dict in insertion order: a sequence of
\* <<engine, hits>>, hits a sequence of ids in rank order.
\* Variant: ranks counted from 0 (rank_0 taken as the rank).
Contributions_from_zero(ranked_lists) ==
    Flatten(Tuple([e \in 1..Len(ranked_lists) |->
                Tuple([i \in 1..Len(ranked_lists[e][2]) |->
                          <<ranked_lists[e][2][i], i - 1>>])]))
\* The (id, 1-based rank) pairs in the order the double loop visits them.
Contributions(ranked_lists) ==
    Flatten(Tuple([e \in 1..Len(ranked_lists) |->
                Tuple([i \in 1..Len(ranked_lists[e][2]) |->
                          <<ranked_lists[e][2][i], i>>])]))

RECURSIVE SumReciprocals(_, _, _)
SumReciprocals(contribs, id, k) ==
    IF contribs = <<>> THEN Zero
    ELSE LET rest == SumReciprocals(SubSeq(contribs, 1, Len(contribs) - 1), id, k)
             c == contribs[Len(contribs)]
         IN IF c[1] = id THEN AddReciprocal(rest, k + c[2]) ELSE rest

rrf_scores(ranked_lists, k) ==
    LET contribs == Contributions(ranked_lists)
        ids == Dedup(Tuple([i \in 1..Len(contribs) |-> contribs[i][1]]))
    IN Tuple([i \in 1..Len(ids) |->
                 [id |-> ids[i], score |-> SumReciprocals(contribs, ids[i], k)]])

\* Variant: equal scores come out in the reverse of their insertion order.
fuse_results_ties_reversed(ranked_lists, k) ==
    StableSortDesc(Reverse(rrf_scores(ranked_lists, k)),
                   LAMBDA a, b : ScoreGreater(a.score, b.score))
\* Variant: the scores are returned in insertion order, unsorted.
fuse_results_unsorted(ranked_lists, k) == rrf_scores(ranked_lists, k)
fuse_results(ranked_lists, k) ==
    StableSortDesc(rrf_scores(ranked_lists, k),
                   LAMBDA a, b : ScoreGreater(a.score, b.score))

\* ----------------------------------------------------------------------
\* Metadata store reads (storage/metadata.py)
\* ----------------------------------------------------------------------
\* SELECT ... WHERE chunk_id IN (ids): the stored rows among ids, each once,
\* in the row order the database happens to use.
get_chunks(table, ids, row_order) == InOrder(row_order, Range(ids) \cap table)

\* ----------------------------------------------------------------------
\* Engines
\* ----------------------------------------------------------------------
NoTable == [exists |-> FALSE, ids |-> {}]
NoBM25 == [exists |-> FALSE, chunk_ids |-> <<>>]
NoStats == [present |-> FALSE, total_files |-> 0, total_chunks |-> 0,
            total_entities |-> 0, total_edges |-> 0]

\* LanceDBVectorStore.search: no table -> []; else the top_k nearest rows.
\* sem_order is the order of increasing distance to the query embedding.
VectorSearch(table, sem_order, top_k) ==
    IF ~table.exists THEN <<>>
    ELSE Take(InOrder(sem_order, table.ids), top_k)

\* BM25SearchEngine.search.  positive is the set of documents whose BM25
\* score for the query is > 0 (empty for a query without tokens) and
\* lex_order the order of decreasing score.
BM25Search(data, positive, lex_order, top_k) ==
    IF ~data.exists THEN <<>>
    ELSE LET k == Min(top_k, Len(data.chunk_ids))
             ranked == InOrder(lex_order, Range(data.chunk_ids) \cap positive)
         IN \* np.argpartition(scores, -k)[-k:] keeps every index when k = 0
            IF k = 0 THEN ranked ELSE Take(ranked, k)

\* GraphSearchEngine.search, scores scaled by 4 (a hop-1 id adds its maximum
\* weight 1.0, every hop-2 row adds 1.0 / 4).
\* What one seed contributes: hop1_ids, and the rows of the 2-hop query that
\* are neither the seed nor a hop-1 id.
seed_rows(ns, es, seed) ==
    LET neighbors == get_neighbors(ns, es, seed, 2)
        hop1_ids == {b[2] : b \in get_neighbors(ns, es, seed, 1)} \ {seed}
    IN [hop1_ids |-> hop1_ids,
        hop2_rows |-> {b \in neighbors : b[2] # seed /\ b[2] \notin hop1_ids}]
SeedScore(rows, id) ==
    IF id \in rows.hop1_ids THEN 4
    ELSE Cardinality({b \in rows.hop2_rows : b[2] = id})
RECURSIVE SumSeeds(_, _)
SumSeeds(per_seed, id) ==
    IF per_seed = <<>> THEN 0
    ELSE SeedScore(per_seed[1], id) + SumSeeds(Tail(per_seed), id)
\* Variant: the seeds are left among the scored nodes.
aggregated_scores_keeps_seeds(ns, es, seeds, row_order) ==
    LET per_seed == Tuple([i \in 1..Len(seeds) |-> seed_rows(ns, es, seeds[i])])
        keys == Dedup(Flatten(Tuple(
                    [i \in 1..Len(seeds) |->
                        InOrder(row_order, per_seed[i].hop1_ids)
                        \o InOrder(row_order, {b[2] : b \in per_seed[i].hop2_rows})])))
    IN Tuple([i \in 1..Len(keys) |->
                 [id |-> keys[i], score |-> SumSeeds(per_seed, keys[i])]])
\* aggregated_scores: its keys in insertion order (per seed the hop-1 ids and
\* then the hop-2 ids, each group in the order the store and the set
\* iteration happen to give), the seeds popped.
aggregated_scores(ns, es, seeds, row_order) ==
    LET per_seed == Tuple([i \in 1..Len(seeds) |-> seed_rows(ns, es, seeds[i])])
        keys == Dedup(Flatten(Tuple(
                    [i \in 1..Len(seeds) |->
                        InOrder(row_order, per_seed[i].hop1_ids)
                        \o InOrder(row_order, {b[2] : b \in per_seed[i].hop2_rows})])))
        kept == SelectSeq(keys, LAMBDA id : id \notin Range(seeds))
    IN Tuple([i \in 1..Len(kept) |->
                 [id |-> kept[i], score |-> SumSeeds(per_seed, kept[i])]])
GraphSearch(ns, es, seed_chunk_ids, top_k, row_order) ==
    IF seed_chunk_ids = <<>> THEN <<>>
    ELSE Take(StableSortDesc(aggregated_scores(ns, es, seed_chunk_ids, row_order),
                             LAMBDA a, b : a.score > b.score),
              top_k)
Ids(items) == Tuple([i \in 1..Len(items) |-> items[i].id])

\* ----------------------------------------------------------------------
\* Reranker (search/reranker.py)
\* ----------------------------------------------------------------------
\* ce maps a chunk id to the cross-encoder score of (query, text) after the
\* length penalty, as an integer.
rerank(table, chunk_ids, ce, row_order, top_k) ==
    LET rows == get_chunks(table, chunk_ids, row_order)
        kept == SelectSeq(rows, LAMBDA id : ce[id] >= score_threshold)
        scored == Tuple([i \in 1..Len(kept) |->
                            [id |-> kept[i], score |-> <<ce[kept[i]], 1>>]])
    IN Take(StableSortDesc(scored, LAMBDA a, b : a.score[1] > b.score[1]), top_k)

\* The scoring of rerank with the score the model predicts for each text
\* followed: rows is (chunk_id, len(text), predicted score) in the order of
\* id_text_pairs, the scores exact rationals.
\* score * (0.5 + 0.5 * (text_length / min_length)) below min_length.
adjusted_score(score, text_length) ==
    IF text_length < min_length
    THEN <<score * (min_length + text_length), 2 * min_length>>
    ELSE <<score, 1>>
rerank_scores(rows, top_k) ==
    LET adjusted_scores == Tuple([i \in 1..Len(rows) |->
                                     adjusted_score(rows[i].score, rows[i].text_length)])
        passing == SelectSeq(Tuple([i \in 1..Len(rows) |-> i]),
                             LAMBDA i : ~ ScoreGreater(<<score_threshold, 1>>,
                                                       adjusted_scores[i]))
        scored == StableSortDesc(
                      Tuple([k \in 1..Len(passing) |->
                                [id |-> rows[passing[k]].chunk_id,
                                 score |-> adjusted_scores[passing[k]]]]),
                      LAMBDA a, b : ScoreGreater(a.score, b.score))
    IN [adjusted_scores |-> adjusted_scores, scored |-> scored,
        result |-> Take(scored, top_k)]

\* ----------------------------------------------------------------------
\* Hydration (search/fusion.py build_search_results)
\* ----------------------------------------------------------------------
_ENGINE_SCORE_FIELDS == <<"semantic", "bm25", "graph">>
engine_hits(per_engine, engine) ==
    IF \E i \in 1..Len(per_engine) : per_engine[i][1] = engine
    THEN per_engine[CHOOSE i \in 1..Len(per_engine) : per_engine[i][1] = engine][2]
    ELSE <<>>
matched_engines(per_engine, id) ==
    {_ENGINE_SCORE_FIELDS[i] : i \in
        {j \in 1..Len(_ENGINE_SCORE_FIELDS) :
            id \in Range(engine_hits(per_engine, _ENGINE_SCORE_FIELDS[j]))}}
\* Variant: the results are built from the rows in the order get_chunks
\* returns them, not by walking the fused list.
build_search_results_row_order(fused, per_engine, table, top_k, row_order) ==
    LET top == Take(fused, top_k)
        rows == get_chunks(table, Ids(top), row_order)
    IN Tuple([i \in 1..Len(rows) |->
                 [chunk_id |-> rows[i],
                  fused_score |-> top[IndexOf(Ids(top), rows[i])].score,
                  matched_engines |-> matched_engines(per_engine, rows[i])]])
build_search_results(fused, per_engine, table, top_k, row_order) ==
    LET top == Take(fused, top_k)
        chunks_by_id == Range(get_chunks(table, Ids(top), row_order))
        found == SelectSeq(top, LAMBDA x : x.id \in chunks_by_id)
    IN Tuple([i \in 1..Len(found) |->
                 [chunk_id |-> found[i].id,
                  fused_score |-> found[i].score,
                  matched_engines |-> matched_engines(per_engine, found[i].id)]])


\* ----------------------------------------------------------------------
\* Inputs of the operations
\* ----------------------------------------------------------------------
Modes == {"semantic", "bm25", "graph", "hybrid"}
\* A directory: the number of chunks chunk_file produces for each markdown
\* file in it (0: the file is not in the directory).
Dirs == [Files -> 0..MaxChunksPerFile]
DirFiles(dir) == SelectSeq(FileSeq, LAMBDA f : dir[f] > 0)
DirFileChunks(dir, f) == Tuple([i \in 1..dir[f] |-> chunk_id(f, i - 1)])
\* all_chunks of pipeline.index: files in sorted order, chunks in index order.
all_chunks(dir) ==
    Flatten(Tuple([i \in 1..Len(DirFiles(dir)) |->
                      DirFileChunks(dir, DirFiles(dir)[i])]))
\* What a query means to the external models: sem is the order of increasing
\* embedding distance, lex the order of decreasing BM25 score, positive the
\* documents with a BM25 score > 0, ce the cross-encoder scoring.
\* Two cross-encoders: one scores the chunks 6, -4, -14, ... down their
\* enumeration, the other 6, -9, -24, ... up it (the reranker drops the
\* scores under score_threshold).
CEScoring(ord, step) ==
    [id \in AllIds |->
        IF id \in ChunkIds
        THEN 6 - step * (IndexOf(InOrder(ord, ChunkIds), id) - 1)
        ELSE 0]
CEScorings == {CEScoring(IdSeq, 10), CEScoring(Reverse(IdSeq), 15)}
PositiveSets == {ChunkIds, {c \in ChunkIds : c[1] = FileSeq[1]}, {}}
\* Which hit lists are fused for a mode (the others stay empty).
\* Variant: graph mode also fuses the semantic list it computes for seeds.
semantic_is_fused_or_seeds(mode) == mode \in {"semantic", "hybrid", "graph"}
semantic_is_fused(mode) == mode \in {"semantic", "hybrid"}
bm25_is_fused(mode) == mode \in {"bm25", "hybrid"}
graph_is_run(mode) == mode \in {"graph", "hybrid"}
\* The queries that differ in something a search of this mode reads.
QueriesFor(mode, do_rerank) ==
    [sem : IF mode = "bm25" THEN {IdSeq} ELSE Orders,
     lex : IF mode = "semantic" THEN {IdSeq} ELSE Orders,
     positive : IF mode = "semantic" THEN {{}} ELSE PositiveSets,
     ce : IF do_rerank THEN CEScorings ELSE {CEScoring(IdSeq, 10)}]

NoResult ==
    [op |-> "idle", outcome |-> "returned", top_k |-> 0, mode |-> "", rerank |-> FALSE,
     expand |-> FALSE, row_order |-> <<>>, pool_size |-> 0, fault |-> "none",
     semantic_hits |-> <<>>,
     bm25_hits |-> <<>>,
     graph_hits |-> <<>>, seed_ids |-> <<>>, rrf |-> <<>>, fused |-> <<>>,
     results |-> <<>>, stats |-> NoStats, chunks |-> <<>>, ce |-> <<>>,
     query |-> <<>>, search_query |-> <<>>]

\* DOTMD_RERANK_POOL_SIZE: the default, or a pool of two candidates.
PoolSizes == {2, rerank_pool_size}

\* ----------------------------------------------------------------------
\* Construction
\* ----------------------------------------------------------------------
Init ==
    /\ chunks = {}
    /\ stats = NoStats
    /\ vectors = NoTable
    /\ bm25_file = NoBM25
    /\ nodes = NoNodes
    /\ edges = {}
    /\ acronyms = FALSE
    /\ last = NoResult
    /\ last_write = "none"
    /\ writes = 0
    /\ settings \in [rerank_pool_size : PoolSizes]
    /\ NotLoaded

\* ----------------------------------------------------------------------
\* IndexingPipeline.index (ingestion/pipeline.py)
\* ----------------------------------------------------------------------
\* The files of a directory are either all plain text (linked = FALSE) or
\* all of one make (linked = TRUE): chunk 0 starts with YAML frontmatter
\* naming EntityName, every later chunk holds the wikilink [[EntityName]],
\* and the text defines an acronym.
\* Chunks for which the structural extractor emits the entity: a YAMLError
\* in the frontmatter of chunk 0 of file bad is swallowed by
\* _extract_frontmatter, which then adds nothing for that chunk.
Mentioning(dir, linked, fault, bad) ==
    SelectSeq(all_chunks(dir),
              LAMBDA c : /\ linked
                         /\ ~(fault = "YAMLError" /\ c = chunk_id(bad, 0)))
\* extract_acronyms_from_chunks(all_chunks) is non-empty.
has_acronyms(dir, linked) == linked /\ all_chunks(dir) # <<>>
extract_entities(dir, linked, fault, bad) ==
    [i \in 1..Len(Mentioning(dir, linked, fault, bad)) |-> NameId(EntityName)]
extract_relations(dir, linked, fault, bad) ==
    [i \in 1..Len(Mentioning(dir, linked, fault, bad)) |->
        <<Mentioning(dir, linked, fault, bad)[i], NameId(EntityName)>>]
contains_relations(dir) ==
    [i \in 1..Len(all_chunks(dir)) |-> <<PathId(all_chunks(dir)[i][1]), all_chunks(dir)[i]>>]

\* save_chunks: upsert on chunk_id.
save_chunks(table, cs) == table \cup Range(cs)
\* add_chunks: create_table(mode="overwrite"); only called for a non-empty list.
add_chunks(table, cs) == IF cs = <<>> THEN table ELSE [exists |-> TRUE, ids |-> Range(cs)]
\* build_index: skipped for an empty list, else rebuilt and pickled.
build_index(file, cs) == IF cs = <<>> THEN file ELSE [exists |-> TRUE, chunk_ids |-> cs]

RECURSIVE add_nodes(_, _, _)
add_nodes(ns, label, ids) ==
    IF ids = <<>> THEN ns ELSE add_nodes(add_node(ns, label, ids[1]), label, Tail(ids))
populate_nodes(ns, dir, entities) ==
    add_nodes(
        add_nodes(
            add_nodes(ns, "Entity", entities),
            "File", [i \in 1..Len(DirFiles(dir)) |-> PathId(DirFiles(dir)[i])]),
        "Section", all_chunks(dir))

IndexStats(dir, entities, relations) ==
    [present |-> TRUE, total_files |-> Len(DirFiles(dir)),
     total_chunks |-> Len(all_chunks(dir)),
     total_entities |-> Len(entities), total_edges |-> Len(relations)]

\* A run of index(directory) that completes.
Index(dir, linked, fault, bad) ==
    LET cs == all_chunks(dir)
        entities == extract_entities(dir, linked, fault, bad)
        relations == extract_relations(dir, linked, fault, bad)
        new_nodes == populate_nodes(nodes, dir, entities)
        new_stats == IndexStats(dir, entities, relations)
    IN /\ last.op = "idle"
       /\ writes < MaxWrites
       /\ writes' = writes + 1
       /\ fault \in {"none", "YAMLError"}
       /\ fault = "none" => bad = FileSeq[1]
       /\ fault # "none" => linked /\ dir[bad] > 0
       /\ chunks' = save_chunks(chunks, cs)
       /\ vectors' = add_chunks(vectors, cs)
       /\ bm25_file' = build_index(bm25_file, cs)
       /\ nodes' = new_nodes
       /\ edges' = add_edges(new_nodes, edges, relations \o contains_relations(dir))
       /\ acronyms' = (has_acronyms(dir, linked) \/ acronyms)
       /\ stats' = new_stats
       /\ last' = [NoResult EXCEPT !.op = "index", !.fault = fault,
                                   !.stats = new_stats, !.chunks = cs]
       /\ last_write' = "index"
       /\ UNCHANGED <<settings, _model, pc, constructed>>

\* A run of index(directory) in which an extractor raises on a chunk an
\* exception that nothing catches (steps 1-5 are done, the rest is not).
IndexAbort(dir, linked, bad) ==
    LET cs == all_chunks(dir)
    IN /\ last.op = "idle"
       /\ writes < MaxWrites
       /\ writes' = writes + 1
       /\ linked /\ dir[bad] > 0
       /\ chunks' = save_chunks(chunks, cs)
       /\ vectors' = add_chunks(vectors, cs)
       /\ bm25_file' = build_index(bm25_file, cs)
       /\ last' = [NoResult EXCEPT !.op = "index", !.outcome = "raised",
                                   !.fault = "ValueError", !.chunks = cs]
       /\ last_write' = "index aborted"
       /\ UNCHANGED <<nodes, edges, acronyms, stats, settings, _model, pc,
                      constructed>>

\* ----------------------------------------------------------------------
\* IndexingPipeline.clear
\* ----------------------------------------------------------------------
\* SQLiteMetadataStore.delete_all
\* Variant: delete_all deletes the stats row and leaves the chunks table.
metadata_delete_stats_only == [chunks |-> chunks, stats |-> NoStats]
metadata_delete_all == [chunks |-> {}, stats |-> NoStats]
Clear ==
    /\ last.op = "idle"
    /\ writes < MaxWrites
    /\ writes' = writes + 1
    /\ chunks' = metadata_delete_all.chunks
    /\ stats' = metadata_delete_all.stats
    /\ vectors' = NoTable
    /\ nodes' = NoNodes
    /\ edges' = {}
    /\ acronyms' = FALSE
    /\ last' = [NoResult EXCEPT !.op = "clear"]
    /\ last_write' = "clear"
    /\ UNCHANGED <<bm25_file, settings, _model, pc, constructed>>

\* ----------------------------------------------------------------------
\* DotMDService.status
\* ----------------------------------------------------------------------
Status ==
    /\ last.op = "idle"
    /\ last' = [NoResult EXCEPT !.op = "status", !.stats = stats]
    /\ UNCHANGED <<chunks, stats, vectors, bm25_file, nodes, edges,
                   acronyms, last_write, writes, settings, _model, pc,
                   constructed>>

\* The caller takes the value (or the exception) of its call and is free to
\* make the next one.  The service is driven by one caller at a time.
Return ==
    /\ last.op # "idle"
    /\ last' = NoResult
    /\ UNCHANGED <<chunks, stats, vectors, bm25_file, nodes, edges,
                   acronyms, last_write, writes, settings, _model, pc,
                   constructed>>


\* ----------------------------------------------------------------------
\* QueryExpander (search/query.py)
\* ----------------------------------------------------------------------
\* A text is the sequence of its words, which single spaces separate, so
\* that " ".join is concatenation and str.split gives the words back.  A
\* word is a string of letters; Chars spells it.
Lowercase == <<"a", "b", "c", "d", "e", "f", "g", "h", "i", "j", "k", "l", "m",
               "n", "o", "p", "q", "r", "s", "t", "u", "v", "w", "x", "y", "z">>
Uppercase == <<"A", "B", "C", "D", "E", "F", "G", "H", "I", "J", "K", "L", "M",
               "N", "O", "P", "Q", "R", "S", "T", "U", "V", "W", "X", "Y", "Z">>
Chars(word) ==
    CASE word = "SIEM" -> <<"S", "I", "E", "M">>
      [] word = "siem" -> <<"s", "i", "e", "m">>
      [] word = "SIEMs" -> <<"S", "I", "E", "M", "s">>
      [] word = "logs" -> <<"l", "o", "g", "s">>
      [] word = "Monitoring" -> <<"M", "o", "n", "i", "t", "o", "r", "i", "n", "g">>
      [] word = "Setup" -> <<"S", "e", "t", "u", "p">>
      [] word = "Security" -> <<"S", "e", "c", "u", "r", "i", "t", "y">>
      [] word = "Information" -> <<"I", "n", "f", "o", "r", "m", "a", "t", "i", "o", "n">>
      [] word = "Incident" -> <<"I", "n", "c", "i", "d", "e", "n", "t">>
      [] word = "and" -> <<"a", "n", "d">>
      [] word = "Event" -> <<"E", "v", "e", "n", "t">>
      [] word = "Management" -> <<"M", "a", "n", "a", "g", "e", "m", "e", "n", "t">>
upper(ch) ==
    IF \E i \in 1..Len(Lowercase) : Lowercase[i] = ch
    THEN Uppercase[IndexOf(Lowercase, ch)] ELSE ch
lower(ch) ==
    IF \E i \in 1..Len(Uppercase) : Uppercase[i] = ch
    THEN Lowercase[IndexOf(Uppercase, ch)] ELSE ch
str_upper(s) == Tuple([i \in 1..Len(s) |-> upper(s[i])])
str_lower(s) == Tuple([i \in 1..Len(s) |-> lower(s[i])])

\* _tokenise: the lowercased words of more than one character.
_tokenise(text) ==
    {str_lower(Chars(text[i])) : i \in {j \in 1..Len(text) : Len(Chars(text[j])) > 1}}

Min3(a, b, c) == Min(a, Min(b, c))
\* The inner loop of _edit_distance: row holds current_row[0..j-1].
RECURSIVE current_row(_, _, _, _)
current_row(row, previous_row, c1, s2) ==
    LET j == Len(row)
    IN IF j > Len(s2) THEN row
       ELSE LET insertions == previous_row[j + 1] + 1
                deletions == row[j] + 1
                substitutions == previous_row[j] + (IF c1 # s2[j] THEN 1 ELSE 0)
            IN current_row(Append(row, Min3(insertions, deletions, substitutions)),
                           previous_row, c1, s2)
\* The outer loop: previous_row after the characters s1[1..i-1].
RECURSIVE edit_rows(_, _, _, _)
edit_rows(previous_row, s1, s2, i) ==
    IF i > Len(s1) THEN previous_row
    ELSE edit_rows(current_row(<<i>>, previous_row, s1[i], s2), s1, s2, i + 1)
RECURSIVE _edit_distance(_, _)
_edit_distance(s1, s2) ==
    IF Len(s1) < Len(s2) THEN _edit_distance(s2, s1)
    ELSE IF Len(s2) = 0 THEN Len(s1)
    ELSE LET last_row == edit_rows(Tuple([j \in 1..(Len(s2) + 1) |-> j - 1]), s1, s2, 1)
         IN last_row[Len(last_row)]

\* An acronym dictionary is the sequence of its (acronym, expansions) items
\* in insertion order; an acronym is spelled, an expansion is a text.
fuzzy_threshold == 1
HasKey(acronym_dict, key) == \E i \in 1..Len(acronym_dict) : acronym_dict[i][1] = key
Lookup(acronym_dict, key) ==
    acronym_dict[CHOOSE i \in 1..Len(acronym_dict) : acronym_dict[i][1] = key][2]
clean_token(token) ==
    SelectSeq(str_upper(Chars(token)), LAMBDA ch : ch \in Range(Uppercase))
\* The fuzzy loop: the first known acronym at the least distance, if that
\* distance is within the threshold; the empty string for None.
RECURSIVE best_match(_, _, _, _, _)
best_match(acronym_dict, clean, i, best, best_distance) ==
    IF i > Len(acronym_dict) THEN best
    ELSE LET distance == _edit_distance(clean, acronym_dict[i][1])
         IN IF distance <= fuzzy_threshold /\ distance < best_distance
            THEN best_match(acronym_dict, clean, i + 1, acronym_dict[i][1], distance)
            ELSE best_match(acronym_dict, clean, i + 1, best, best_distance)
\* The acronym whose expansions follow the token; empty for none
\* ("if best_match:" takes the empty string for no match as well).
matched_acronym(acronym_dict, token) ==
    LET clean == clean_token(token)
    IN IF Len(clean) < 2 THEN <<>>
       ELSE IF HasKey(acronym_dict, clean) THEN clean
       ELSE IF fuzzy_threshold > 0
            THEN best_match(acronym_dict, clean, 1, <<>>, fuzzy_threshold + 1)
            ELSE <<>>
\* _expand_acronyms: expanded_tokens and expansions_added after the tokens
\* from position i on.
RECURSIVE expand_tokens(_, _, _, _)
expand_tokens(acronym_dict, tokens, i, acc) ==
    IF i > Len(tokens) THEN acc
    ELSE LET m == matched_acronym(acronym_dict, tokens[i])
             expansions == IF m = <<>> THEN <<>> ELSE Lookup(acronym_dict, m)
         IN expand_tokens(acronym_dict, tokens, i + 1,
                [expanded_tokens |-> acc.expanded_tokens \o <<tokens[i]>>
                                        \o Flatten(expansions),
                 expansions_added |-> acc.expansions_added \o expansions])
_expand_acronyms(acronym_dict, query) ==
    LET r == expand_tokens(acronym_dict, query, 1,
                           [expanded_tokens |-> <<>>, expansions_added |-> <<>>])
    IN [expanded_query |-> r.expanded_tokens, expansions_added |-> r.expansions_added]

\* Chunk.heading_hierarchy of the chunks of a file, outermost heading first.
heading_hierarchy(id) ==
    IF id[1] = FileSeq[1] THEN << <<"Monitoring">>, <<"SIEM", "logs">> >>
                          ELSE << <<"Setup">> >>
\* The headings of the corpus in the order of Python's str comparison.
HeadingOrder == << <<"Monitoring">>, <<"SIEM", "logs">>, <<"Setup">> >>
\* Stage 2 of expand: the other headings of the hierarchies of every
\* heading that shares a token with the query.
structural_terms(table, query_tokens) ==
    {h \in Range(HeadingOrder) :
        \E id \in table :
            /\ h \in Range(heading_hierarchy(id))
            /\ \E heading \in Range(heading_hierarchy(id)) :
                  /\ query_tokens \cap _tokenise(heading) # {}
                  /\ h # heading}
\* QueryExpander(metadata_store, acronym_dict).expand(query), the store
\* holding the chunks of table.
expand_stage1(acronym_dict, query) ==
    IF acronym_dict # <<>>
    THEN [query |-> _expand_acronyms(acronym_dict, query).expanded_query,
          acronym_terms |-> _expand_acronyms(acronym_dict, query).expansions_added]
    ELSE [query |-> query, acronym_terms |-> <<>>]
expand_stage2(table, s) ==
    IF _tokenise(s.query) = {}
    THEN [original |-> s.query, expanded_terms |-> s.acronym_terms,
          expanded_text |-> s.query]
    ELSE LET all_terms == s.acronym_terms
                             \o InOrder(HeadingOrder,
                                        structural_terms(table, _tokenise(s.query)))
         IN [original |-> s.query, expanded_terms |-> all_terms,
             expanded_text |-> IF all_terms # <<>>
                               THEN s.query \o Flatten(all_terms) ELSE s.query]
expand(table, acronym_dict, query) ==
    expand_stage2(table, expand_stage1(acronym_dict, query))

\* ----------------------------------------------------------------------
\* chunk_file (ingestion/chunker.py)
\* ----------------------------------------------------------------------
\* A str is the sequence of its characters.
IsSpace(ch) == ch \in {" ", "\n"}
RECURSIVE lstrip(_)
lstrip(s) == IF s # <<>> /\ IsSpace(s[1]) THEN lstrip(Tail(s)) ELSE s
strip(s) == Reverse(lstrip(Reverse(lstrip(s))))
\* sep.join(parts)
RECURSIVE join(_, _)
join(sep, parts) ==
    IF parts = <<>> THEN <<>>
    ELSE IF Len(parts) = 1 THEN parts[1]
    ELSE parts[1] \o sep \o join(sep, Tail(parts))
Max(a, b) == IF a >= b THEN a ELSE b
estimate_tokens(text) == Max(1, Len(text) \div 4)

\* re.split(r"(?<=[.!?])\s+(?=[A-Z])", text): scanning from position i, the
\* piece that starts at start ends at a '.', '!' or '?' that a run of
\* whitespace and then a capital letter follow.
RECURSIVE RunEnd(_, _)
RunEnd(text, i) == IF i <= Len(text) /\ IsSpace(text[i]) THEN RunEnd(text, i + 1) ELSE i
RECURSIVE re_split(_, _, _)
re_split(text, start, i) ==
    IF i > Len(text) THEN <<SubSeq(text, start, Len(text))>>
    ELSE IF /\ text[i] \in {".", "!", "?"}
            /\ RunEnd(text, i + 1) > i + 1
            /\ RunEnd(text, i + 1) <= Len(text)
            /\ text[RunEnd(text, i + 1)] \in Range(Uppercase)
         THEN <<SubSeq(text, start, i)>>
                 \o re_split(text, RunEnd(text, i + 1), RunEnd(text, i + 1))
         ELSE re_split(text, start, i + 1)
split_sentences(text) ==
    SelectSeq(Tuple([i \in 1..Len(re_split(text, 1, 1)) |-> strip(re_split(text, 1, 1)[i])]),
              LAMBDA s : s # <<>>)

\* Variant: the overlap loop stops at the budget even with nothing taken.
RECURSIVE overlap_loop_may_be_empty(_, _, _, _)
overlap_loop_may_be_empty(current_sentences, i, o, overlap_tokens) ==
    IF i < 1 THEN o
    ELSE IF o.overlap_tok + estimate_tokens(current_sentences[i]) > overlap_tokens
         THEN o
         ELSE overlap_loop_may_be_empty(current_sentences, i - 1,
                  [overlap_sents |-> <<current_sentences[i]>> \o o.overlap_sents,
                   overlap_tok |-> o.overlap_tok + estimate_tokens(current_sentences[i])],
                  overlap_tokens)
\* The overlap loop of _split_with_overlap, down from sentence i.
RECURSIVE overlap_loop(_, _, _, _)
overlap_loop(current_sentences, i, o, overlap_tokens) ==
    IF i < 1 THEN o
    ELSE IF /\ o.overlap_tok + estimate_tokens(current_sentences[i]) > overlap_tokens
            /\ o.overlap_sents # <<>>
         THEN o
         ELSE overlap_loop(current_sentences, i - 1,
                  [overlap_sents |-> <<current_sentences[i]>> \o o.overlap_sents,
                   overlap_tok |-> o.overlap_tok + estimate_tokens(current_sentences[i])],
                  overlap_tokens)
\* The sentence loop, from sentence i on.  st.flushes lists, for every
\* piece appended in the loop, the sentences it was joined from and the
\* overlap_sents the next piece starts with.
RECURSIVE sentence_loop(_, _, _, _, _)
sentence_loop(sentences, i, st, max_tokens, overlap_tokens) ==
    IF i > Len(sentences) THEN st
    ELSE LET sent_tokens == estimate_tokens(sentences[i])
             flush == /\ st.current_sentences # <<>>
                      /\ st.current_tokens + sent_tokens > max_tokens
             o == overlap_loop(st.current_sentences, Len(st.current_sentences),
                               [overlap_sents |-> <<>>, overlap_tok |-> 0],
                               overlap_tokens)
         IN sentence_loop(sentences, i + 1,
                IF flush
                THEN [pieces |-> Append(st.pieces, join(<<" ">>, st.current_sentences)),
                      current_sentences |-> Append(o.overlap_sents, sentences[i]),
                      current_tokens |-> o.overlap_tok + sent_tokens,
                      flushes |-> Append(st.flushes,
                                         [current_sentences |-> st.current_sentences,
                                          overlap_sents |-> o.overlap_sents])]
                ELSE [pieces |-> st.pieces,
                      current_sentences |-> Append(st.current_sentences, sentences[i]),
                      current_tokens |-> st.current_tokens + sent_tokens,
                      flushes |-> st.flushes],
                max_tokens, overlap_tokens)
split_locals(text, max_tokens, overlap_tokens) ==
    sentence_loop(split_sentences(text), 1,
                  [pieces |-> <<>>, current_sentences |-> <<>>,
                   current_tokens |-> 0, flushes |-> <<>>],
                  max_tokens, overlap_tokens)
_split_with_overlap(text, max_tokens, overlap_tokens) ==
    LET sentences == split_sentences(text)
        st == split_locals(text, max_tokens, overlap_tokens)
    IN IF sentences = <<>>
       THEN IF strip(text) # <<>> THEN <<text>> ELSE <<>>
       ELSE IF st.current_sentences # <<>>
            THEN Append(st.pieces, join(<<" ">>, st.current_sentences))
            ELSE st.pieces

\* A markdown document is given by its heading lines and the text under
\* each: doc[i] = [level, heading, body], level 0 for the text before the
\* first heading.  _parse_sections gives each section its char_offset, the
\* end of its heading line.
heading_line(section) ==
    IF section.level = 0 THEN <<>>
    ELSE [i \in 1..section.level |-> "#"] \o <<" ">> \o section.heading
RECURSIVE content_length(_, _)
content_length(doc, n) ==
    IF n = 0 THEN 0
    ELSE content_length(doc, n - 1) + Len(heading_line(doc[n])) + Len(doc[n].body)
_parse_sections(doc) ==
    Tuple([i \in 1..Len(doc) |->
        [level |-> doc[i].level, heading |-> doc[i].heading, body |-> doc[i].body,
         char_offset |-> IF doc[i].level = 0 THEN 0
                         ELSE content_length(doc, i - 1) + Len(heading_line(doc[i]))]])

\* Variant: the deeper headings are kept.
set_heading_keeps_deeper(hierarchy, level, heading) ==
    IF level = 0 THEN hierarchy
    ELSE [i \in 1..6 |-> IF i = level THEN heading ELSE hierarchy[i]]
\* hierarchy[level] = heading, and the deeper headings cleared.
set_heading(hierarchy, level, heading) ==
    IF level = 0 THEN hierarchy
    ELSE [i \in 1..6 |-> IF i = level THEN heading
                         ELSE IF i > level THEN <<>> ELSE hierarchy[i]]
current_hierarchy(hierarchy, level) ==
    SelectSeq(SubSeq(hierarchy, 1, level), LAMBDA h : h # <<>>)
section_text(path, body_stripped) ==
    join(<<"\n", "\n">>,
         (IF path # <<>> THEN <<join(<<" ", ">", " ">>, path)>> ELSE <<>>)
         \o (IF body_stripped # <<>> THEN <<body_stripped>> ELSE <<>>))
\* The texts of the chunks of a section.
section_sub_texts(text, max_tokens, overlap_tokens) ==
    IF estimate_tokens(text) <= max_tokens THEN <<text>>
    ELSE _split_with_overlap(text, max_tokens, overlap_tokens)
\* The Chunk objects appended for a section.
section_chunks(file_path, section, path, texts, chunk_index) ==
    [i \in 1..Len(texts) |->
        [chunk_id |-> chunk_id(file_path, chunk_index + i - 1),
         file_path |-> file_path, heading_hierarchy |-> path,
         level |-> section.level, text |-> texts[i],
         chunk_index |-> chunk_index + i - 1,
         char_offset |-> section.char_offset]]
\* The section loop of chunk_file, from section i on.
RECURSIVE section_loop(_, _, _, _, _, _)
section_loop(file_path, sections, i, st, max_tokens, overlap_tokens) ==
    IF i > Len(sections) THEN st.chunks
    ELSE LET hierarchy == set_heading(st.hierarchy, sections[i].level,
                                      sections[i].heading)
             path == current_hierarchy(hierarchy, sections[i].level)
             body_stripped == strip(sections[i].body)
             text == section_text(path, body_stripped)
             texts == IF (body_stripped = <<>> /\ sections[i].heading = <<>>)
                         \/ text = <<>>
                      THEN <<>>
                      ELSE section_sub_texts(text, max_tokens, overlap_tokens)
         IN section_loop(file_path, sections, i + 1,
                [chunks |-> st.chunks
                               \o section_chunks(file_path, sections[i], path,
                                                 texts, Len(st.chunks)),
                 hierarchy |-> hierarchy],
                max_tokens, overlap_tokens)
chunk_file(file_path, doc, max_tokens, overlap_tokens) ==
    section_loop(file_path, _parse_sections(doc), 1,
                 [chunks |-> <<>>, hierarchy |-> [i \in 1..6 |-> <<>>]],
                 max_tokens, overlap_tokens)

\* ----------------------------------------------------------------------
\* StructuralExtractor (extraction/structural.py): the heading hierarchy
\* ----------------------------------------------------------------------
\* index(): all_chunks with the text of the files followed, the chunks of
\* every file, file after file.
chunk_files(files, docs, max_tokens, overlap_tokens) ==
    Flatten(Tuple([i \in 1..Len(files) |->
                      Tuple(chunk_file(files[i], docs[i], max_tokens,
                                       overlap_tokens))]))
\* hierarchy_map: for every heading hierarchy the chunk_id of the last chunk
\* of the list that has it.
hierarchy_map(chunk_list) ==
    [key \in {chunk_list[i].heading_hierarchy : i \in 1..Len(chunk_list)} |->
        chunk_list[CHOOSE i \in 1..Len(chunk_list) :
                      /\ chunk_list[i].heading_hierarchy = key
                      /\ \A j \in (i + 1)..Len(chunk_list) :
                            chunk_list[j].heading_hierarchy # key].chunk_id]
\* The PARENT_OF relation of one chunk, if any.
parent_of(map, chunk) ==
    LET hier == chunk.heading_hierarchy
        parent_key == SubSeq(hier, 1, Len(hier) - 1)
    IN IF Len(hier) > 1 /\ parent_key \in DOMAIN map
       THEN << [source_id |-> map[parent_key], target_id |-> chunk.chunk_id,
                relation_type |-> "PARENT_OF"] >>
       ELSE <<>>
\* extract on chunks whose text holds no wikilink, tag, frontmatter or
\* markdown link: the relations are the PARENT_OF ones, in chunk order.
extract(chunk_list) ==
    Flatten(Tuple([i \in 1..Len(chunk_list) |->
                      parent_of(hierarchy_map(chunk_list), chunk_list[i])]))

\* ----------------------------------------------------------------------
\* DotMDService.search (api/service.py)
\* ----------------------------------------------------------------------
\* BM25SearchEngine.load_index: _data is replaced only if the file exists.
load_index(file, data) == IF file.exists THEN file ELSE data

named(engine, hits) == IF hits # <<>> THEN << <<engine, hits>> >> ELSE <<>>

\* search is modelled block by block.  Each block takes the record c of the
\* call's local variables and gives it back with the variables it assigns.
\* c.reached collects the collaborators whose code the call runs and that can
\* therefore raise in it: the embedding model ("semantic"), unpickling and
\* scoring ("bm25"), the graph database ("graph", not queried without
\* seeds), the cross-encoder ("rerank", not run without texts).
search_locals(q, top_k, mode, do_rerank, row_order) ==
    [q |-> q, top_k |-> top_k, mode |-> mode, rerank |-> do_rerank,
     row_order |-> row_order,
     pool_size |-> IF do_rerank THEN settings.rerank_pool_size ELSE top_k,
     semantic_hits |-> <<>>, bm25_hits |-> <<>>, graph_hits |-> <<>>,
     seed_ids |-> <<>>, engine_results |-> <<>>, rrf |-> <<>>, fused |-> <<>>,
     results |-> <<>>, reached |-> {}]

semantic_search(c) == VectorSearch(vectors, c.q.sem, c.pool_size)
bm25_search(c) ==
    BM25Search(load_index(bm25_file, NoBM25), c.q.positive, c.q.lex, c.pool_size)
\* Variant: load_index opens the file without testing that it exists.
bm25_reached_unguarded == {"bm25"}
bm25_reached == IF bm25_file.exists THEN {"bm25"} ELSE {}

\* if mode in ("semantic", "hybrid")
semantic_block(c) ==
    IF semantic_is_fused(c.mode)
    THEN [c EXCEPT !.semantic_hits = semantic_search(c),
                   !.reached = @ \cup {"semantic"}]
    ELSE c
\* if mode in ("bm25", "hybrid")
bm25_block(c) ==
    IF bm25_is_fused(c.mode)
    THEN [c EXCEPT !.bm25_hits = bm25_search(c), !.reached = @ \cup bm25_reached]
    ELSE c
\* Variant: in hybrid mode only the BM25 hits seed the graph engine.
seed_block_bm25_only(c) ==
    IF c.mode = "graph"
    THEN [c EXCEPT !.seed_ids = Dedup(semantic_search(c) \o bm25_search(c)),
                   !.reached = @ \cup {"semantic"} \cup bm25_reached]
    ELSE IF c.mode = "hybrid"
    THEN [c EXCEPT !.seed_ids = Dedup(c.bm25_hits)]
    ELSE c
\* if mode in ("graph", "hybrid"): the seeds ...
seed_block(c) ==
    IF c.mode = "graph"
    THEN [c EXCEPT !.seed_ids = Dedup(semantic_search(c) \o bm25_search(c)),
                   !.reached = @ \cup {"semantic"} \cup bm25_reached]
    ELSE IF c.mode = "hybrid"
    THEN [c EXCEPT !.seed_ids = Dedup(c.semantic_hits \o c.bm25_hits)]
    ELSE c
\* ... and the graph engine
graph_block(c) ==
    IF graph_is_run(c.mode)
    THEN [c EXCEPT !.graph_hits = Ids(GraphSearch(nodes, edges, c.seed_ids,
                                                  c.pool_size, c.row_order)),
                   !.reached = @ \cup (IF c.seed_ids # <<>> THEN {"graph"} ELSE {})]
    ELSE c
engine_results_block(c) ==
    [c EXCEPT !.engine_results = named("semantic", c.semantic_hits)
                                 \o named("bm25", c.bm25_hits)
                                 \o named("graph", c.graph_hits)]
fuse_block(c) == [c EXCEPT !.rrf = fuse_results(c.engine_results, fusion_k)]
pool_ids(c) == Ids(Take(c.rrf, c.pool_size))
\* Variant: the reranker is never run and the fused list is kept.
rerank_block_keeps_rrf(c) == [c EXCEPT !.fused = c.rrf]
\* if rerank and fused
rerank_block(c) ==
    IF c.rerank /\ c.rrf # <<>>
    THEN [c EXCEPT !.fused = rerank(chunks, pool_ids(c), c.q.ce, c.row_order,
                                    c.pool_size),
                   !.reached = @ \cup
                       (IF get_chunks(chunks, pool_ids(c), c.row_order) # <<>>
                        THEN {"rerank"} ELSE {})]
    ELSE [c EXCEPT !.fused = c.rrf]
\* Variant: the final slice and the hydration use pool_size where the code
\* uses top_k.
results_block_pool(c) ==
    [c EXCEPT !.results = build_search_results(Take(c.fused, c.pool_size),
                                               c.engine_results, chunks,
                                               c.pool_size, c.row_order)]
results_block(c) ==
    [c EXCEPT !.results = build_search_results(Take(c.fused, c.top_k),
                                               c.engine_results, chunks,
                                               c.top_k, c.row_order)]

\* Everything one call of search computes when no collaborator raises.
search(q, top_k, mode, do_rerank, row_order) ==
    results_block(rerank_block(fuse_block(engine_results_block(graph_block(
        seed_block(bm25_block(semantic_block(
            search_locals(q, top_k, mode, do_rerank, row_order)))))))))

\* The ways a call that computes r can end: it returns its results, or a
\* collaborator it reaches raises and the exception leaves search (there is
\* no handler in it).
outcomes(call, r) ==
    {[call EXCEPT !.pool_size = r.pool_size, !.row_order = r.row_order,
                  !.semantic_hits = r.semantic_hits,
                  !.bm25_hits = r.bm25_hits, !.graph_hits = r.graph_hits,
                  !.seed_ids = r.seed_ids, !.rrf = r.rrf,
                  !.fused = r.fused, !.results = r.results,
                  !.ce = IF r.rerank THEN r.q.ce ELSE <<>>]}
    \cup {[call EXCEPT !.outcome = "raised", !.fault = fault] : fault \in r.reached}
search_outcomes(q, top_k, mode, do_rerank, do_expand, row_order) ==
    outcomes([NoResult EXCEPT !.op = "search", !.top_k = top_k, !.mode = mode,
                              !.rerank = do_rerank, !.expand = do_expand],
             search(q, top_k, mode, do_rerank, row_order))

\* Variant: a BM25 search that finds no index file writes an empty one.
Search_creating_index(q, top_k, mode, do_rerank, do_expand, row_order) ==
    /\ last.op = "idle"
    /\ last' \in search_outcomes(q, top_k, mode, do_rerank, do_expand, row_order)
    /\ bm25_file' = IF bm25_is_fused(mode) /\ ~bm25_file.exists
                    THEN [exists |-> TRUE, chunk_ids |-> <<>>]
                    ELSE bm25_file
    /\ UNCHANGED <<chunks, stats, vectors, nodes, edges, acronyms,
                   last_write, writes, settings, _model, pc, constructed>>
Search(q, top_k, mode, do_rerank, do_expand, row_order) ==
    /\ last.op = "idle"
    /\ last' \in search_outcomes(q, top_k, mode, do_rerank, do_expand, row_order)
    /\ UNCHANGED <<chunks, stats, vectors, bm25_file, nodes, edges, acronyms,
                   last_write, writes, settings, _model, pc, constructed>>

\* The same call with the text of the query followed: search_query is what
\* the engines are handed.  __init__ builds the expander from the metadata
\* store alone, so its acronym dictionary is the empty default.
_query_expander_acronyms == <<>>
search_query(table, query, do_expand) ==
    IF do_expand /\ expand(table, _query_expander_acronyms, query).expanded_text # <<>>
    THEN expand(table, _query_expander_acronyms, query).expanded_text
    ELSE query
SearchText(query, q, top_k, mode, do_rerank, do_expand, row_order) ==
    /\ last.op = "idle"
    /\ last' \in {[o EXCEPT !.query = query,
                            !.search_query = search_query(chunks, query, do_expand)] :
                    o \in search_outcomes(q, top_k, mode, do_rerank, do_expand, row_order)}
    /\ UNCHANGED <<chunks, stats, vectors, bm25_file, nodes, edges, acronyms,
                   last_write, writes, settings, _model, pc, constructed>>

\* ----------------------------------------------------------------------
\* Specification of the service
\* ----------------------------------------------------------------------
\* One caller at a time; what its calls return does not depend on when the
\* models are loaded, which SpecLoad follows and this specification does not.
Next ==
    \/ \E dir \in Dirs, linked \in BOOLEAN,
          fault \in {"none", "YAMLError"}, bad \in Files :
          Index(dir, linked, fault, bad)
    \/ \E dir \in Dirs, linked \in BOOLEAN, bad \in Files :
          IndexAbort(dir, linked, bad)
    \/ Clear
    \/ Status
    \/ \E top_k \in 0..MaxTopK, mode \in Modes, do_rerank \in BOOLEAN,
          do_expand \in BOOLEAN :
          \E q \in QueriesFor(mode, do_rerank), row_order \in Orders :
              Search(q, top_k, mode, do_rerank, do_expand, row_order)
    \/ Return

Spec == Init /\ [][Next]_vars

\* The service under calls of index() and clear() that all complete.
NextWrites ==
    \/ \E dir \in Dirs, linked \in BOOLEAN,
          fault \in {"none", "YAMLError"}, bad \in Files :
          Index(dir, linked, fault, bad)
    \/ Clear
    \/ Return
SpecWrites == Init /\ [][NextWrites]_vars

\* ----------------------------------------------------------------------
\* Specification of index() call by call
\* ----------------------------------------------------------------------
\* A run of index(directory) as the sequence of the calls it makes on the
\* stores, in program order, each a step of its own; an exception may leave
\* the run before any of them.
StoreCall(call, label, id, source_id, target_id) ==
    [call |-> call, label |-> label, id |-> id,
     source_id |-> source_id, target_id |-> target_id]
chunk_calls(dir) ==
    <<StoreCall("save_chunks", None, None, None, None)>>
    \o (IF all_chunks(dir) # <<>>
        THEN <<StoreCall("add_chunks", None, None, None, None)>> ELSE <<>>)
    \o <<StoreCall("build_index", None, None, None, None)>>
entity_node_calls(dir, linked, fault, bad) ==
    [i \in 1..Len(extract_entities(dir, linked, fault, bad)) |->
        StoreCall("add_node", "Entity", extract_entities(dir, linked, fault, bad)[i],
                  None, None)]
file_node_calls(dir) ==
    [i \in 1..Len(DirFiles(dir)) |->
        StoreCall("add_node", "File", PathId(DirFiles(dir)[i]), None, None)]
section_node_calls(dir) ==
    [i \in 1..Len(all_chunks(dir)) |->
        StoreCall("add_node", "Section", all_chunks(dir)[i], None, None)]
relation_edge_calls(dir, linked, fault, bad) ==
    [i \in 1..Len(extract_relations(dir, linked, fault, bad)) |->
        StoreCall("add_edge", "relation", None,
                  extract_relations(dir, linked, fault, bad)[i][1],
                  extract_relations(dir, linked, fault, bad)[i][2])]
contains_edge_calls(dir) ==
    [i \in 1..Len(contains_relations(dir)) |->
        StoreCall("add_edge", "CONTAINS", None,
                  contains_relations(dir)[i][1], contains_relations(dir)[i][2])]
final_calls(dir, linked) ==
    (IF has_acronyms(dir, linked)
     THEN <<StoreCall("save_acronyms", None, None, None, None)>> ELSE <<>>)
    \o <<StoreCall("save_stats", None, None, None, None)>>
\* Variant: the edges are added before the section nodes.
index_calls_edges_first(dir, linked, fault, bad) ==
    Tuple(chunk_calls(dir) \o entity_node_calls(dir, linked, fault, bad)
          \o file_node_calls(dir)
          \o relation_edge_calls(dir, linked, fault, bad) \o contains_edge_calls(dir)
          \o section_node_calls(dir)
          \o final_calls(dir, linked))
\* Variant: the stats are saved before the graph is populated.
index_calls_stats_first(dir, linked, fault, bad) ==
    Tuple(chunk_calls(dir) \o final_calls(dir, linked)
          \o entity_node_calls(dir, linked, fault, bad)
          \o file_node_calls(dir) \o section_node_calls(dir)
          \o relation_edge_calls(dir, linked, fault, bad) \o contains_edge_calls(dir))
index_calls(dir, linked, fault, bad) ==
    Tuple(chunk_calls(dir) \o entity_node_calls(dir, linked, fault, bad)
          \o file_node_calls(dir) \o section_node_calls(dir)
          \o relation_edge_calls(dir, linked, fault, bad) \o contains_edge_calls(dir)
          \o final_calls(dir, linked))
\* index(directory) is called: files are discovered, read and chunked.
IndexCall(dir, linked, fault, bad) ==
    /\ last.op = "idle"
    /\ writes < MaxWrites
    /\ writes' = writes + 1
    /\ fault \in {"none", "YAMLError"}
    /\ fault = "none" => bad = FileSeq[1]
    /\ fault # "none" => linked /\ dir[bad] > 0
    /\ last' = [op |-> "index", outcome |-> "running", fault |-> fault,
                chunks |-> all_chunks(dir),
                new_stats |-> IndexStats(dir, extract_entities(dir, linked, fault, bad),
                                         extract_relations(dir, linked, fault, bad)),
                todo |-> index_calls(dir, linked, fault, bad),
                done |-> <<>>, skipped |-> <<>>, stats_before |-> stats]
    /\ last_write' = "index running"
    /\ UNCHANGED <<chunks, stats, vectors, bm25_file, nodes, edges, acronyms,
                   settings, _model, pc, constructed>>
\* The next store call of the run.  skipped lists the add_edge calls that
\* return at "Cannot add edge: node not found".
IndexStep ==
    /\ last.op = "index" /\ last.outcome = "running"
    /\ chunks' = IF Head(last.todo).call = "save_chunks"
                 THEN save_chunks(chunks, last.chunks) ELSE chunks
    /\ vectors' = IF Head(last.todo).call = "add_chunks"
                  THEN add_chunks(vectors, last.chunks) ELSE vectors
    /\ bm25_file' = IF Head(last.todo).call = "build_index"
                    THEN build_index(bm25_file, last.chunks) ELSE bm25_file
    /\ nodes' = IF Head(last.todo).call = "add_node"
                THEN add_node(nodes, Head(last.todo).label, Head(last.todo).id)
                ELSE nodes
    /\ edges' = IF Head(last.todo).call = "add_edge"
                THEN add_edge(nodes, edges, Head(last.todo).source_id,
                              Head(last.todo).target_id)
                ELSE edges
    /\ acronyms' = (Head(last.todo).call = "save_acronyms" \/ acronyms)
    /\ stats' = IF Head(last.todo).call = "save_stats" THEN last.new_stats ELSE stats
    /\ last' = [last EXCEPT
                   !.todo = Tail(@),
                   !.done = Append(@, Head(last.todo)),
                   !.skipped =
                       IF /\ Head(last.todo).call = "add_edge"
                          /\ \/ _find_node_label(nodes, Head(last.todo).source_id) = None
                             \/ _find_node_label(nodes, Head(last.todo).target_id) = None
                       THEN Append(@, Head(last.todo)) ELSE @,
                   !.outcome = IF Tail(last.todo) = <<>> THEN "returned" ELSE "running"]
    /\ last_write' = IF Tail(last.todo) = <<>> THEN "index" ELSE last_write
    /\ UNCHANGED <<writes, settings, _model, pc, constructed>>
\* An exception leaves the run before its next store call.
IndexRaise ==
    /\ last.op = "index" /\ last.outcome = "running"
    /\ last' = [last EXCEPT !.outcome = "raised"]
    /\ last_write' = "index aborted"
    /\ UNCHANGED <<chunks, stats, vectors, bm25_file, nodes, edges, acronyms,
                   writes, settings, _model, pc, constructed>>
\* The caller takes the stats or the exception of a run that has ended.
IndexReturn ==
    /\ last.op = "index" /\ last.outcome # "running"
    /\ last' = NoResult
    /\ UNCHANGED <<chunks, stats, vectors, bm25_file, nodes, edges,
                   acronyms, last_write, writes, settings, _model, pc,
                   constructed>>
NextIndexCalls ==
    \/ \E dir \in Dirs, linked \in BOOLEAN,
          fault \in {"none", "YAMLError"}, bad \in Files :
          IndexCall(dir, linked, fault, bad)
    \/ IndexStep
    \/ IndexRaise
    \/ IndexReturn
SpecIndexCalls == Init /\ [][NextIndexCalls]_vars

\* ----------------------------------------------------------------------
\* Specification of fuse_results on its own
\* ----------------------------------------------------------------------
\* The engines hand fuse_results lists without repeated ids; the dict holds
\* any of the three engines, in the order the service inserts them.
FuseIds == {chunk_id("f.md", i) : i \in 0..(MaxFuseIds - 1)}
FuseLists ==
    {l \in UNION {[1..n -> FuseIds] : n \in 0..MaxListLen} : IsInjective(l)}
FuseKs == {1, fusion_k}
InitFuse ==
    /\ chunks = {} /\ stats = NoStats /\ vectors = NoTable /\ bm25_file = NoBM25
    /\ nodes = NoNodes /\ edges = {} /\ acronyms = FALSE
    /\ last_write = "none" /\ writes = 0
    /\ settings = [rerank_pool_size |-> rerank_pool_size]
    /\ NotLoaded
    /\ \E l1 \in FuseLists, l2 \in FuseLists, l3 \in FuseLists, k \in FuseKs :
          last = [op |-> "fuse_results", outcome |-> "called", k |-> k,
                  ranked_lists |-> << <<"semantic", l1>>, <<"bm25", l2>>,
                                      <<"graph", l3>> >>,
                  fused |-> <<>>]
Fuse ==
    /\ last.op = "fuse_results" /\ last.outcome = "called"
    /\ last' = [last EXCEPT !.outcome = "returned",
                            !.fused = fuse_results(last.ranked_lists, last.k)]
    /\ UNCHANGED <<chunks, stats, vectors, bm25_file, nodes, edges, acronyms,
                   last_write, writes, settings, _model, pc, constructed>>
NextFuse == Fuse
SpecFuse == InitFuse /\ [][NextFuse]_vars

\* fuse_results on the lists of the semantic and the BM25 engine, k = 60.
\* An engine's (chunk_id, score) pairs are modelled by their chunk ids in
\* list order: fuse_results reads the position and ignores the score.
PairIds == {chunk_id("f.md", i) : i \in 0..(MaxPairIds - 1)}
PairLists ==
    {l \in UNION {[1..n -> PairIds] : n \in 0..MaxPairLen} : IsInjective(l)}
InitFusePair ==
    /\ chunks = {} /\ stats = NoStats /\ vectors = NoTable /\ bm25_file = NoBM25
    /\ nodes = NoNodes /\ edges = {} /\ acronyms = FALSE
    /\ last_write = "none" /\ writes = 0
    /\ settings = [rerank_pool_size |-> rerank_pool_size]
    /\ NotLoaded
    /\ \E l1 \in PairLists, l2 \in PairLists :
          last = [op |-> "fuse_results", outcome |-> "called", k |-> fusion_k,
                  ranked_lists |-> << <<"semantic", l1>>, <<"bm25", l2>> >>,
                  fused |-> <<>>]
SpecFusePair == InitFusePair /\ [][NextFuse]_vars

\* ----------------------------------------------------------------------
\* Specification of query expansion
\* ----------------------------------------------------------------------
\* The words a query is made of: an acronym, the same in lower case, its
\* plural and a word that is no acronym.
QueryWords == {"SIEM", "siem", "SIEMs", "logs"}
QueryTexts == UNION {[1..n -> QueryWords] : n \in 0..MaxQueryWords}
\* What extract_acronyms_from_chunks finds in the documents that define an
\* acronym, and a dictionary with two expansions of it (sorted).
CorpusAcronyms ==
    << <<Chars("SIEM"),
         << <<"Security", "Information", "and", "Event", "Management">> >> >> >>
TwoExpansions ==
    << <<Chars("SIEM"),
         << <<"Security", "Incident", "and", "Event", "Management">>,
            <<"Security", "Information", "and", "Event", "Management">> >> >> >>
AcronymDicts == {<<>>, CorpusAcronyms, TwoExpansions}
InitExpand ==
    /\ chunks = {} /\ stats = NoStats /\ vectors = NoTable /\ bm25_file = NoBM25
    /\ nodes = NoNodes /\ edges = {} /\ acronyms = FALSE
    /\ last = NoResult /\ last_write = "none" /\ writes = 0
    /\ settings = [rerank_pool_size |-> rerank_pool_size]
    /\ NotLoaded
\* QueryExpander(metadata_store, acronym_dict).expand(query).
ExpandCall(query, acronym_dict) ==
    /\ last.op = "idle"
    /\ last' = [op |-> "expand", outcome |-> "returned", query |-> query,
                acronym_dict |-> acronym_dict,
                expanded |-> expand(chunks, acronym_dict, query)]
    /\ UNCHANGED <<chunks, stats, vectors, bm25_file, nodes, edges, acronyms,
                   last_write, writes, settings, _model, pc, constructed>>
NextExpand ==
    \/ \E dir \in Dirs, linked \in BOOLEAN : Index(dir, linked, "none", FileSeq[1])
    \/ \E query \in QueryTexts, acronym_dict \in AcronymDicts :
          ExpandCall(query, acronym_dict)
    \/ \E query \in QueryTexts, mode \in Modes, do_expand \in BOOLEAN :
          \E q \in QueriesFor(mode, FALSE) :
              SearchText(query, q, 1, mode, FALSE, do_expand, IdSeq)
    \/ Return
SpecExpand == InitExpand /\ [][NextExpand]_vars

\* ----------------------------------------------------------------------
\* Specification of chunk_file on its own
\* ----------------------------------------------------------------------
\* A sentence of n characters: a capital, small letters and a full stop.
Sentence(n) == <<"A">> \o [i \in 1..(n - 2) |-> "a"] \o <<".">>
\* Sentences of one and of three estimated tokens.
SentenceLens == {7, 12}
Bodies ==
    UNION {[1..n -> {Sentence(len) : len \in SentenceLens}] : n \in 0..MaxSentences}
HeadingOf(level) ==
    CASE level = 0 -> <<>> [] level = 1 -> <<"T", "o", "p">> [] level = 2 -> <<"S", "u", "b">>
\* The text under a heading line runs from the end of that line to the
\* next heading; the text before the first heading is not blank.
HeadedSection(level, heading, sentences) ==
    [level |-> level, heading |-> heading,
     body |-> (IF level = 0 THEN <<>> ELSE <<"\n">>)
              \o join(<<" ">>, sentences)
              \o (IF sentences = <<>> THEN <<>> ELSE <<"\n">>)]
Section(level, sentences) == HeadedSection(level, HeadingOf(level), sentences)
Sections ==
    {Section(level, sentences) : level \in 0..2, sentences \in Bodies}
Docs ==
    {doc \in UNION {[1..n -> Sections] : n \in 1..MaxSections} :
        \A i \in 1..Len(doc) :
            doc[i].level = 0 => i = 1 /\ doc[i].body # <<>>}
InitChunk ==
    /\ chunks = {} /\ stats = NoStats /\ vectors = NoTable /\ bm25_file = NoBM25
    /\ nodes = NoNodes /\ edges = {} /\ acronyms = FALSE
    /\ last_write = "none" /\ writes = 0
    /\ settings = [rerank_pool_size |-> rerank_pool_size]
    /\ NotLoaded
    /\ \E doc \in Docs, max_tokens \in 1..MaxMaxTokens,
          overlap_tokens \in 0..MaxOverlapTokens :
          last = [op |-> "chunk_file", outcome |-> "called", doc |-> doc,
                  max_tokens |-> max_tokens, overlap_tokens |-> overlap_tokens,
                  chunks |-> <<>>]
ChunkFile ==
    /\ last.op = "chunk_file" /\ last.outcome = "called"
    /\ last' = [last EXCEPT !.outcome = "returned",
                            !.chunks = chunk_file(FileSeq[1], last.doc, last.max_tokens,
                                                  last.overlap_tokens)]
    /\ UNCHANGED <<chunks, stats, vectors, bm25_file, nodes, edges, acronyms,
                   last_write, writes, settings, _model, pc, constructed>>
NextChunk == ChunkFile
SpecChunk == InitChunk /\ [][NextChunk]_vars

\* chunk_file with the default settings on documents of short sections
\* under headings of any of the first levels.
HeadingNames == {HeadingOf(1), HeadingOf(2)}
HeadedSections ==
    {HeadedSection(0, <<>>, <<Sentence(7)>>)}
    \cup {HeadedSection(level, heading, sentences) :
             level \in 1..MaxHeadingLevel, heading \in HeadingNames,
             sentences \in {<<>>, <<Sentence(7)>>}}
HeadedDocs ==
    {doc \in UNION {[1..n -> HeadedSections] : n \in 1..MaxHeadedSections} :
        \A i \in 1..Len(doc) : doc[i].level = 0 => i = 1}
InitHierarchy ==
    /\ chunks = {} /\ stats = NoStats /\ vectors = NoTable /\ bm25_file = NoBM25
    /\ nodes = NoNodes /\ edges = {} /\ acronyms = FALSE
    /\ last_write = "none" /\ writes = 0
    /\ settings = [rerank_pool_size |-> rerank_pool_size]
    /\ NotLoaded
    /\ \E doc \in HeadedDocs :
          last = [op |-> "chunk_file", outcome |-> "called", doc |-> doc,
                  max_tokens |-> max_chunk_tokens,
                  overlap_tokens |-> chunk_overlap_tokens, chunks |-> <<>>]
SpecHierarchy == InitHierarchy /\ [][NextChunk]_vars

\* ----------------------------------------------------------------------
\* Specification of _split_with_overlap on its own
\* ----------------------------------------------------------------------
\* chunk_file calls it with the text of a section of more than max_tokens.
SplitTexts ==
    {join(<<" ">>, sentences) :
        sentences \in UNION {[1..n -> {Sentence(len) : len \in SentenceLens}] :
                                n \in 1..MaxSplitSentences}}
InitSplit ==
    /\ chunks = {} /\ stats = NoStats /\ vectors = NoTable /\ bm25_file = NoBM25
    /\ nodes = NoNodes /\ edges = {} /\ acronyms = FALSE
    /\ last_write = "none" /\ writes = 0
    /\ settings = [rerank_pool_size |-> rerank_pool_size]
    /\ NotLoaded
    /\ \E text \in SplitTexts, max_tokens \in 1..MaxSplitTokens,
          overlap_tokens \in 0..MaxSplitOverlap :
          /\ estimate_tokens(text) > max_tokens
          /\ last = [op |-> "_split_with_overlap", outcome |-> "called",
                     text |-> text, max_tokens |-> max_tokens,
                     overlap_tokens |-> overlap_tokens,
                     pieces |-> <<>>, flushes |-> <<>>]
SplitWithOverlap ==
    /\ last.op = "_split_with_overlap" /\ last.outcome = "called"
    /\ last' = [last EXCEPT
                   !.outcome = "returned",
                   !.pieces = _split_with_overlap(last.text, last.max_tokens,
                                                  last.overlap_tokens),
                   !.flushes = split_locals(last.text, last.max_tokens,
                                            last.overlap_tokens).flushes]
    /\ UNCHANGED <<chunks, stats, vectors, bm25_file, nodes, edges, acronyms,
                   last_write, writes, settings, _model, pc, constructed>>
NextSplit == SplitWithOverlap
SpecSplit == InitSplit /\ [][NextSplit]_vars

\* ----------------------------------------------------------------------
\* Specification of structural extraction over the chunks of two files
\* ----------------------------------------------------------------------
\* Each file has one or two sections, each under a heading of level 1 or 2
\* and with one sentence of text; index() chunks them with the default
\* settings and hands all the chunks to the extractor.
ParentSections ==
    {HeadedSection(level, heading, <<Sentence(7)>>) :
        level \in 1..2, heading \in HeadingNames}
ParentDocs == UNION {[1..n -> ParentSections] : n \in 1..MaxSections}
InitParents ==
    /\ chunks = {} /\ stats = NoStats /\ vectors = NoTable /\ bm25_file = NoBM25
    /\ nodes = NoNodes /\ edges = {} /\ acronyms = FALSE
    /\ last_write = "none" /\ writes = 0
    /\ settings = [rerank_pool_size |-> rerank_pool_size]
    /\ NotLoaded
    /\ \E docs \in [1..Len(FileSeq) -> ParentDocs] :
          last = [op |-> "extract", outcome |-> "called", docs |-> docs,
                  chunks |-> <<>>, relations |-> <<>>]
ReadAndChunk ==
    /\ last.op = "extract" /\ last.outcome = "called"
    /\ last' = [last EXCEPT !.outcome = "chunked",
                            !.chunks = chunk_files(FileSeq, last.docs, max_chunk_tokens,
                                                   chunk_overlap_tokens)]
    /\ UNCHANGED <<chunks, stats, vectors, bm25_file, nodes, edges, acronyms,
                   last_write, writes, settings, _model, pc, constructed>>
Extract ==
    /\ last.op = "extract" /\ last.outcome = "chunked"
    /\ last' = [last EXCEPT !.outcome = "returned",
                            !.relations = extract(last.chunks)]
    /\ UNCHANGED <<chunks, stats, vectors, bm25_file, nodes, edges, acronyms,
                   last_write, writes, settings, _model, pc, constructed>>
NextParents == ReadAndChunk \/ Extract
SpecParents == InitParents /\ [][NextParents]_vars

\* ----------------------------------------------------------------------
\* Specification of the scoring of Reranker.rerank
\* ----------------------------------------------------------------------
\* The chunks handed to the cross-encoder: texts of a length for which the
\* penalty factor is a binary fraction, and whole scores on both sides of
\* zero and of the threshold.
TextLengths == {0, 50, 100, 150}
RawScores == {-16, -10, -8, -4, 0, 6}
RerankRows ==
    UNION {{rows \in [1..n -> [chunk_id : ChunkIds, text_length : TextLengths,
                               score : RawScores]] :
               \A i, j \in 1..n : rows[i].chunk_id = rows[j].chunk_id => i = j} :
           n \in 1..MaxRerankChunks}
InitRerank ==
    /\ chunks = {} /\ stats = NoStats /\ vectors = NoTable /\ bm25_file = NoBM25
    /\ nodes = NoNodes /\ edges = {} /\ acronyms = FALSE
    /\ last_write = "none" /\ writes = 0
    /\ settings = [rerank_pool_size |-> rerank_pool_size]
    /\ NotLoaded
    /\ \E rows \in RerankRows, top_k \in 1..MaxRerankChunks :
          last = [op |-> "rerank", outcome |-> "called", rows |-> rows,
                  top_k |-> top_k, adjusted_scores |-> <<>>, scored |-> <<>>,
                  result |-> <<>>]
Rerank ==
    /\ last.op = "rerank" /\ last.outcome = "called"
    /\ last' = [last EXCEPT
                   !.outcome = "returned",
                   !.adjusted_scores = rerank_scores(last.rows, last.top_k).adjusted_scores,
                   !.scored = rerank_scores(last.rows, last.top_k).scored,
                   !.result = rerank_scores(last.rows, last.top_k).result]
    /\ UNCHANGED <<chunks, stats, vectors, bm25_file, nodes, edges, acronyms,
                   last_write, writes, settings, _model, pc, constructed>>
NextRerank == Rerank
SpecRerank == InitRerank /\ [][NextRerank]_vars

\* ----------------------------------------------------------------------
\* Specification of lazy model loading (_load_model)
\* ----------------------------------------------------------------------
\* Threads call into the service: index() reaches encode_batch of the
\* pipeline's engine, search() reaches encode of the service's engine and,
\* with rerank, rerank of the reranker; each of them calls _load_model.
InitLoad ==
    /\ chunks = {} /\ stats = NoStats /\ vectors = NoTable /\ bm25_file = NoBM25
    /\ nodes = NoNodes /\ edges = {} /\ acronyms = FALSE
    /\ last = NoResult /\ last_write = "none" /\ writes = 0
    /\ settings = [rerank_pool_size |-> rerank_pool_size]
    /\ NotLoaded
\* _load_model touches nothing but the engine's _model.
StoresUnchanged ==
    UNCHANGED <<chunks, stats, vectors, bm25_file, nodes, edges, acronyms,
                last, last_write, writes, settings>>
\* if self._model is None
EnterLoad(t, e) ==
    /\ pc[t] = Idle
    /\ pc' = [pc EXCEPT ![t] = [at |-> IF _model[e] THEN "return" ELSE "construct",
                                engine |-> e]]
    /\ UNCHANGED <<_model, constructed>>
    /\ StoresUnchanged
\* self._model = SentenceTransformer(...) / CrossEncoder(...)
Construct(t) ==
    /\ pc[t].at = "construct"
    /\ constructed' = [constructed EXCEPT ![ModelKind(pc[t].engine)] = @ + 1]
    /\ _model' = [_model EXCEPT ![pc[t].engine] = TRUE]
    /\ pc' = [pc EXCEPT ![t].at = "return"]
    /\ StoresUnchanged
\* return self._model
ReturnModel(t) ==
    /\ pc[t].at = "return"
    /\ pc' = [pc EXCEPT ![t] = Idle]
    /\ UNCHANGED <<_model, constructed>>
    /\ StoresUnchanged
NextLoad ==
    \/ \E t \in Threads, e \in Engines : EnterLoad(t, e)
    \/ \E t \in Threads : Construct(t)
    \/ \E t \in Threads : ReturnModel(t)
SpecLoad == InitLoad /\ [][NextLoad]_vars

\* ----------------------------------------------------------------------
\* Properties of search results
\* ----------------------------------------------------------------------
Returned(op) == last.op = op /\ last.outcome = "returned"
ResultIds == Tuple([i \in 1..Len(last.results) |-> last.results[i].chunk_id])
EnginesOf(mode) ==
    CASE mode = "semantic" -> {"semantic"}
      [] mode = "bm25" -> {"bm25"}
      [] mode = "graph" -> {"graph"}
      [] OTHER -> {"semantic", "bm25", "graph"}
HitsOf(engine) ==
    CASE engine = "semantic" -> last.semantic_hits
      [] engine = "bm25" -> last.bm25_hits
      [] OTHER -> last.graph_hits

\* C1: whatever the query, top_k >= 0, mode, rerank and expand, a search
\* that returns returns at most top_k results, also when rerank is on and
\* the pool size differs from top_k.
C1_AtMostTopK == Returned("search") => Len(last.results) <= last.top_k
\* A reranked search whose candidate list is longer than top_k >= 1 and whose
\* results fill top_k.
C1_Witness ==
    /\ Returned("search") /\ last.rerank /\ last.top_k >= 1
    /\ last.pool_size # last.top_k
    /\ Len(last.fused) > last.top_k
    /\ Len(last.results) = last.top_k

\* C2: the chunk ids of the results are exactly the ids among the first
\* top_k of the fused (with rerank: reranked) list that are in the metadata
\* store, in the order of that list, whatever order get_chunks returns its
\* rows in; so every returned chunk is in the store.
C2_HydrationPreservesOrder ==
    Returned("search") =>
        /\ ResultIds = SelectSeq(Ids(Take(last.fused, last.top_k)),
                                 LAMBDA id : id \in chunks)
        /\ \A i \in 1..Len(last.results) :
              \E j \in 1..Len(last.fused) :
                 /\ last.fused[j].id = last.results[i].chunk_id
                 /\ last.fused[j].score = last.results[i].fused_score
\* Two results in the order opposite to the one get_chunks returns their
\* rows in, an id the store lacks having been dropped from between them.
C2_Witness ==
    /\ Returned("search") /\ Len(last.results) = 2 /\ Len(last.fused) >= 3
    /\ ResultIds # get_chunks(chunks, ResultIds, last.row_order)
    /\ last.fused[1].id \in chunks
    /\ last.fused[2].id \notin chunks
    /\ last.fused[3].id \in chunks

\* C3: matched_engines of every result is a subset of the engines of the
\* mode (in graph mode only "graph": the seed runs are not reported), and
\* an engine is listed only if the chunk is in the list that engine
\* contributed to this search.
C3_MatchedEngines ==
    Returned("search") =>
        \A i \in 1..Len(last.results) :
            /\ last.results[i].matched_engines \subseteq EnginesOf(last.mode)
            /\ \A e \in last.results[i].matched_engines :
                  last.results[i].chunk_id \in Range(HitsOf(e))
\* A graph-mode search with seeds and a result, reported as found by the
\* graph engine alone.
C3_Witness ==
    /\ Returned("search") /\ last.mode = "graph"
    /\ last.seed_ids # <<>> /\ last.results # <<>>
    /\ \A i \in 1..Len(last.results) : last.results[i].matched_engines = {"graph"}


\* ----------------------------------------------------------------------
\* Properties of index, clear and status
\* ----------------------------------------------------------------------
\* C4: after every index() that returns, whatever index() and clear() calls
\* came before, the total_chunks that index() persisted, and that status()
\* then returns, is the number of chunks in the metadata store.
C4_TotalChunksIsStored ==
    /\ Returned("index") => /\ stats = last.stats
                            /\ stats.total_chunks = Cardinality(chunks)
    /\ (Returned("status") /\ last_write = "index") =>
           /\ last.stats.present
           /\ last.stats.total_chunks = Cardinality(chunks)

C6_NeverBuilt ==
    writes = 0 =>
        /\ Returned("status") => ~last.stats.present
        /\ Returned("search") => last.results = <<>>
        /\ last.op = "search" => last.fault \in {"none", "semantic"}
\* A hybrid, reranked search with top_k >= 1 on the never-built index.
C6_Witness ==
    /\ writes = 0 /\ Returned("search") /\ last.mode = "hybrid"
    /\ last.rerank /\ last.expand /\ last.top_k >= 1
    /\ last.results = <<>>

\* C7: no exception raised by a search engine at query time leaves
\* search(): every call of search returns.
C7_EngineFailureDoesNotAbort ==
    last.op = "search" =>
        \/ last.outcome = "returned"
        \/ last.fault \notin {"semantic", "bm25", "graph"}

\* C8: no extraction failure on a chunk leaves index(): every call of index
\* returns, having persisted its stats.
C8_ExtractionFailureIsSkipped ==
    last.op = "index" => /\ last.outcome = "returned"
                         /\ stats = last.stats

\* C9: every id the graph engine returns is a chunk id in the metadata
\* store.
C9_GraphHitsAreStoredChunks ==
    Returned("search") => \A id \in Range(last.graph_hits) : id \in chunks

\* ----------------------------------------------------------------------
\* Properties of fuse_results
\* ----------------------------------------------------------------------
\* The sum over the engines whose list holds id of 1 / (k + position of id
\* in that list), positions counted from 1.
RECURSIVE ReciprocalRankSum(_, _, _)
ReciprocalRankSum(ranked_lists, id, k) ==
    IF ranked_lists = <<>> THEN Zero
    ELSE LET rest == ReciprocalRankSum(Tail(ranked_lists), id, k)
             hits == ranked_lists[1][2]
         IN IF id \in Range(hits)
            THEN AddReciprocal(rest, k + IndexOf(hits, id))
            ELSE rest
ListedIds(ranked_lists) ==
    UNION {Range(ranked_lists[e][2]) : e \in 1..Len(ranked_lists)}

\* C10: fuse_results outputs every id of at least one engine list exactly
\* once and no other id, each with the score sum of 1 / (k + rank) over the
\* engines that list it, in order of non-increasing score.
C10_FuseIsRRF ==
    Returned("fuse_results") =>
        /\ Range(Ids(last.fused)) = ListedIds(last.ranked_lists)
        /\ IsInjective(Ids(last.fused))
        /\ \A i \in 1..Len(last.fused) :
              ScoreEqual(last.fused[i].score,
                         ReciprocalRankSum(last.ranked_lists, last.fused[i].id,
                                           last.k))
        /\ \A i \in 1..(Len(last.fused) - 1) :
              ~ ScoreGreater(last.fused[i + 1].score, last.fused[i].score)
\* Three ids fused with k = 60, the first of the output listed by all three
\* engines at two different ranks.
C10_Witness ==
    /\ Returned("fuse_results") /\ last.k = fusion_k /\ Len(last.fused) = 3
    /\ \A e \in 1..3 : last.fused[1].id \in Range(last.ranked_lists[e][2])
    /\ \E e, f \in 1..3 :
          IndexOf(last.ranked_lists[e][2], last.fused[1].id)
              # IndexOf(last.ranked_lists[f][2], last.fused[1].id)
    /\ ScoreGreater(last.fused[1].score, last.fused[2].score)

\* The worked example: ids a, b, c, d.
ExampleA == chunk_id("f.md", 0)
ExampleB == chunk_id("f.md", 1)
ExampleC == chunk_id("f.md", 2)
ExampleD == chunk_id("f.md", 3)
ExampleLists ==
    << <<"semantic", <<ExampleA, ExampleB, ExampleC>> >>,
       <<"bm25", <<ExampleB, ExampleD, ExampleA>> >> >>
IsExample == last.ranked_lists = ExampleLists /\ last.k = 60

\* C11 (as stated): for Semantic = [a, b, c], BM25 = [b, d, a] and k = 60
\* fuse_results returns b, a, d, c with rrf(b) = 1/61 + 1/61,
\* rrf(a) = 1/61 + 1/63, rrf(d) = 1/62 and rrf(c) = 1/63.
C11_WorkedExample ==
    (Returned("fuse_results") /\ IsExample) =>
        /\ Ids(last.fused) = <<ExampleB, ExampleA, ExampleD, ExampleC>>
        /\ ScoreEqual(last.fused[1].score, AddReciprocal(AddReciprocal(Zero, 61), 61))
        /\ ScoreEqual(last.fused[2].score, AddReciprocal(AddReciprocal(Zero, 61), 63))
        /\ ScoreEqual(last.fused[3].score, AddReciprocal(Zero, 62))
        /\ ScoreEqual(last.fused[4].score, AddReciprocal(Zero, 63))
\* C11 (amended): on the same input fuse_results returns b, a, d, c with
\* rrf(b) = 1/62 + 1/61 (b is second in the semantic list and first in the
\* BM25 list), rrf(a) = 1/61 + 1/63, rrf(d) = 1/62 and rrf(c) = 1/63.
C11_WorkedExampleAmended ==
    (Returned("fuse_results") /\ IsExample) =>
        /\ Ids(last.fused) = <<ExampleB, ExampleA, ExampleD, ExampleC>>
        /\ ScoreEqual(last.fused[1].score, AddReciprocal(AddReciprocal(Zero, 62), 61))
        /\ ScoreEqual(last.fused[2].score, AddReciprocal(AddReciprocal(Zero, 61), 63))
        /\ ScoreEqual(last.fused[3].score, AddReciprocal(Zero, 62))
        /\ ScoreEqual(last.fused[4].score, AddReciprocal(Zero, 63))
\* fuse_results has returned on the lists of the example.
C11_Witness == Returned("fuse_results") /\ IsExample /\ Len(last.fused) = 4

\* A is ahead of B in every engine list that holds A (B behind it or not
\* in the list), and every list that holds B holds A.
Outranks(ranked_lists, A, B) ==
    /\ A # B
    /\ \A e \in 1..Len(ranked_lists) :
          LET hits == ranked_lists[e][2]
          IN /\ B \in Range(hits) => A \in Range(hits)
             /\ (A \in Range(hits) /\ B \in Range(hits)) =>
                    IndexOf(hits, A) < IndexOf(hits, B)
PositionOf(fused, id) == IndexOf(Ids(fused), id)
ScoreOf(fused, id) == fused[PositionOf(fused, id)].score

\* C12: if A is ahead of B in every engine in which A appears and A is in
\* every engine in which B appears, then rrf(A) >= rrf(B), and A comes after
\* B in the output only if their scores are equal.
C12_Monotone ==
    Returned("fuse_results") =>
        \A A \in ListedIds(last.ranked_lists), B \in ListedIds(last.ranked_lists) :
            Outranks(last.ranked_lists, A, B) =>
                /\ ~ ScoreGreater(ScoreOf(last.fused, B), ScoreOf(last.fused, A))
                /\ PositionOf(last.fused, A) > PositionOf(last.fused, B) =>
                       ScoreEqual(ScoreOf(last.fused, A), ScoreOf(last.fused, B))
\* A is listed by three engines and outranks B, which two of them list; a
\* third id is fused as well.
C12_Witness ==
    /\ Returned("fuse_results") /\ Len(last.fused) = 3
    /\ \E A \in ListedIds(last.ranked_lists), B \in ListedIds(last.ranked_lists) :
          /\ Outranks(last.ranked_lists, A, B)
          /\ \A e \in 1..3 : A \in Range(last.ranked_lists[e][2])
          /\ Cardinality({e \in 1..3 : B \in Range(last.ranked_lists[e][2])}) = 2
          /\ PositionOf(last.fused, A) < PositionOf(last.fused, B)

\* The position at which id is first met when the engine lists are read one
\* after the other, in the order of the dict (semantic, bm25, graph).
FirstInsertion(ranked_lists, id) ==
    LET all == Flatten(Tuple([e \in 1..Len(ranked_lists) |-> ranked_lists[e][2]]))
    IN CHOOSE i \in 1..Len(all) :
          all[i] = id /\ \A j \in 1..(i - 1) : all[j] # id

\* C13: the output of fuse_results is fixed by its input: of any two
\* entries the earlier has the greater score, or the same score and the
\* earlier first insertion (engine order, then rank within the engine).
\* The order is total on the listed ids, so equal inputs give equal outputs.
C13_StableTies ==
    Returned("fuse_results") =>
        \A i \in 1..Len(last.fused), j \in 1..Len(last.fused) :
            i < j =>
                \/ ScoreGreater(last.fused[i].score, last.fused[j].score)
                \/ /\ ScoreEqual(last.fused[i].score, last.fused[j].score)
                   /\ FirstInsertion(last.ranked_lists, last.fused[i].id)
                          < FirstInsertion(last.ranked_lists, last.fused[j].id)
\* Two ids tie that two engines rank in opposite orders, next to a third id
\* with another score.
C13_Witness ==
    /\ Returned("fuse_results") /\ Len(last.fused) = 3
    /\ \E i \in 1..2 :
          /\ ScoreEqual(last.fused[i].score, last.fused[i + 1].score)
          /\ \E e \in 1..3, f \in 1..3 :
                LET X == last.fused[i].id
                    Y == last.fused[i + 1].id
                    he == last.ranked_lists[e][2]
                    hf == last.ranked_lists[f][2]
                IN /\ {X, Y} \subseteq Range(he) /\ {X, Y} \subseteq Range(hf)
                   /\ IndexOf(he, X) < IndexOf(he, Y)
                   /\ IndexOf(hf, Y) < IndexOf(hf, X)
    /\ ~ ScoreEqual(last.fused[1].score, last.fused[3].score)

\* ----------------------------------------------------------------------
\* Properties of reranked searches
\* ----------------------------------------------------------------------
\* C14: with rerank on and a non-empty fused list, every result reports as
\* fused_score the cross-encoder score of its chunk, the results are in
\* non-increasing order of that score, and every result is among the first
\* pool_size ids of the fused (RRF) list.
C14_RerankOrder ==
    (Returned("search") /\ last.rerank /\ last.rrf # <<>>) =>
        /\ \A i \in 1..Len(last.results) :
              last.results[i].fused_score = <<last.ce[last.results[i].chunk_id], 1>>
        /\ \A i \in 1..(Len(last.results) - 1) :
              last.results[i].fused_score[1] >= last.results[i + 1].fused_score[1]
        /\ Range(ResultIds) \subseteq Range(Ids(Take(last.rrf, last.pool_size)))
\* Two results in the order opposite to their RRF order, taken from a pool
\* that is shorter than the fused list.
C14_Witness ==
    /\ Returned("search") /\ last.rerank /\ Len(last.results) = 2
    /\ Len(last.rrf) > last.pool_size
    /\ PositionOf(last.rrf, ResultIds[1]) > PositionOf(last.rrf, ResultIds[2])
    /\ last.results[1].fused_score[1] > last.results[2].fused_score[1]

\* ----------------------------------------------------------------------
\* Properties of lazy model loading
\* ----------------------------------------------------------------------
\* C15: in one process at most one embedding model and at most one
\* cross-encoder model are ever constructed.
C15_SingleInitializer == \A k \in ModelKinds : constructed[k] <= 1

\* ----------------------------------------------------------------------
\* Frame of the read operations
\* ----------------------------------------------------------------------
Stores == <<chunks, stats, vectors, bm25_file, nodes, edges, acronyms>>
IsRead(call) == call.op \in {"search", "status"}

Occurrences(text, sub) ==
    Cardinality({i \in 1..(Len(text) - Len(sub) + 1) :
                    SubSeq(text, i, i + Len(sub) - 1) = sub})
Contains(text, sub) == Occurrences(text, sub) > 0
CountIn(terms, term) == Cardinality({i \in 1..Len(terms) : terms[i] = term})
PersistedExpansions ==
    UNION {Range(CorpusAcronyms[i][2]) : i \in 1..Len(CorpusAcronyms)}

\* C17: once index() has extracted and persisted the dictionary entry
\* SIEM -> [Security Information and Event Management], a search with
\* expand=True whose query contains SIEM hands the engines a text that
\* contains SIEM and each of its expansions.
C17_AcronymRoundTrip ==
    (/\ Returned("search") /\ last.expand
     /\ acronyms
     /\ Contains(last.query, <<"SIEM">>))
    => /\ Contains(last.search_query, <<"SIEM">>)
       /\ \A expansion \in PersistedExpansions :
              Contains(last.search_query, expansion)

\* C18: expand(q) returns an ExpandedQuery whose original is q, whose
\* expanded_text is original followed by the expanded_terms, joined by
\* single spaces, and in which every expansion term occurs as often as it
\* is listed in expanded_terms.
C18_ExpandedQueryShape ==
    Returned("expand")
    => /\ last.expanded.original = last.query
       /\ last.expanded.expanded_text
              = last.expanded.original \o Flatten(last.expanded.expanded_terms)
       /\ \A i \in 1..Len(last.expanded.expanded_terms) :
              Occurrences(last.expanded.expanded_text, last.expanded.expanded_terms[i])
                 = CountIn(last.expanded.expanded_terms, last.expanded.expanded_terms[i])

\* ----------------------------------------------------------------------
\* Properties of the chunks
\* ----------------------------------------------------------------------
StartsWith(text, prefix) ==
    Len(text) >= Len(prefix) /\ SubSeq(text, 1, Len(prefix)) = prefix

\* C19: every chunk that chunk_file emits with a non-empty
\* heading_hierarchy has a text that begins with the hierarchy joined by
\* " > "; the sub-chunks of a sentence-split section are among them.
C19_TextBeginsWithHeadingPath ==
    Returned("chunk_file")
    => \A i \in 1..Len(last.chunks) :
          last.chunks[i].heading_hierarchy # <<>>
          => StartsWith(last.chunks[i].text,
                        join(<<" ", ">", " ">>, last.chunks[i].heading_hierarchy))

\* C20: a sub-chunk of a sentence-split section has an estimated token
\* count of at most max_tokens unless it is a single sentence.  (A chunk
\* that is not a sub-chunk is emitted only with at most max_tokens.)
C20_SubChunkFits ==
    Returned("chunk_file")
    => \A i \in 1..Len(last.chunks) :
          \/ estimate_tokens(last.chunks[i].text) <= last.max_tokens
          \/ Len(split_sentences(last.chunks[i].text)) = 1

\* ----------------------------------------------------------------------
\* Properties of the overlap
\* ----------------------------------------------------------------------
RECURSIVE SumTokens(_)
SumTokens(sentences) ==
    IF sentences = <<>> THEN 0
    ELSE estimate_tokens(sentences[1]) + SumTokens(Tail(sentences))
max_sentence_tokens ==
    LET sentences == split_sentences(last.text)
    IN CHOOSE m \in {estimate_tokens(sentences[i]) : i \in 1..Len(sentences)} :
          \A i \in 1..Len(sentences) : estimate_tokens(sentences[i]) <= m

\* C21 (as stated): between two consecutive sub-chunks at least one
\* sentence is carried over, and the carried sentences together have
\* between overlap_tokens - max_sentence_tokens and
\* overlap_tokens + max_sentence_tokens estimated tokens.
C21_OverlapWithinRange ==
    Returned("_split_with_overlap")
    => \A k \in 1..Len(last.flushes) :
          /\ last.flushes[k].overlap_sents # <<>>
          /\ SumTokens(last.flushes[k].overlap_sents)
                 >= last.overlap_tokens - max_sentence_tokens
          /\ SumTokens(last.flushes[k].overlap_sents)
                 <= last.overlap_tokens + max_sentence_tokens

\* C21 (amended): at least one sentence is carried over and the carried
\* sentences have at most overlap_tokens + max_sentence_tokens estimated
\* tokens; they have at least overlap_tokens - max_sentence_tokens unless
\* they are all the sentences of the first sub-chunk.
C21_OverlapWithinRangeOrWhole ==
    Returned("_split_with_overlap")
    => \A k \in 1..Len(last.flushes) :
          /\ last.flushes[k].overlap_sents # <<>>
          /\ \/ SumTokens(last.flushes[k].overlap_sents)
                    >= last.overlap_tokens - max_sentence_tokens
             \/ last.flushes[k].overlap_sents = last.flushes[k].current_sentences
          /\ SumTokens(last.flushes[k].overlap_sents)
                 <= last.overlap_tokens + max_sentence_tokens
\* A split that carries a whole sub-chunk over, with fewer tokens than
\* overlap_tokens - max_sentence_tokens, in front of a further sentence.
C21_Witness ==
    /\ Returned("_split_with_overlap")
    /\ Len(last.pieces) >= 2
    /\ \E k \in 1..Len(last.flushes) :
          /\ last.flushes[k].overlap_sents = last.flushes[k].current_sentences
          /\ SumTokens(last.flushes[k].overlap_sents)
                 < last.overlap_tokens - max_sentence_tokens

\* ----------------------------------------------------------------------
\* Agreement of the indexes
\* ----------------------------------------------------------------------
\* C22: after every completed index() or clear() the metadata store, the
\* vector store, the persisted BM25 index and the Section nodes of the
\* graph hold the same chunk ids, and after index(d) these are exactly the
\* chunks produced from d.
C22_IndexesAgree ==
    (last.op \in {"index", "clear"} /\ last.outcome = "returned")
    => /\ vectors.ids = chunks
       /\ Range(bm25_file.chunk_ids) = chunks
       /\ nodes.Section = chunks
       /\ last.op = "index" => chunks = Range(last.chunks)

\* ----------------------------------------------------------------------
\* Heading hierarchy
\* ----------------------------------------------------------------------
\* What position l of the stack holds at section i of the document: the
\* heading of the last section up to i at level l, unless a heading of a
\* shallower level came after it.
StackEntry(doc, i, l) ==
    LET at_level == {j \in 1..i : doc[j].level = l}
        j == CHOOSE m \in at_level : \A n \in at_level : n <= m
    IN IF at_level = {} THEN <<>>
       ELSE IF \E m \in (j + 1)..i : doc[m].level < l THEN <<>>
       ELSE doc[j].heading
ExpectedHierarchy(doc, i) ==
    SelectSeq([l \in 1..doc[i].level |-> StackEntry(doc, i, l)],
              LAMBDA h : h # <<>>)
SectionOf(chunk) ==
    CHOOSE i \in 1..Len(last.doc) :
        _parse_sections(last.doc)[i].char_offset = chunk.char_offset

\* C23: every chunk carries the level of its section and, as
\* heading_hierarchy, the non-empty entries at positions 1..level of the
\* heading stack: its last element is the section's own heading, it is no
\* longer than the level, and the text before the first heading has level
\* 0 and an empty hierarchy.
C23_HierarchyIsStack ==
    Returned("chunk_file")
    => \A n \in 1..Len(last.chunks) :
          LET chunk == last.chunks[n]
              i == SectionOf(chunk)
          IN /\ chunk.level = last.doc[i].level
             /\ chunk.heading_hierarchy = ExpectedHierarchy(last.doc, i)
             /\ Len(chunk.heading_hierarchy) <= chunk.level
             /\ chunk.level > 0
                   => chunk.heading_hierarchy[Len(chunk.heading_hierarchy)]
                         = last.doc[i].heading
             /\ chunk.level = 0 => chunk.heading_hierarchy = <<>>
\* A level-2 heading, then a level-1 heading, then a level-3 heading: the
\* last chunk carries the level-1 and the level-3 heading only.
C23_Witness ==
    /\ Returned("chunk_file")
    /\ Len(last.doc) = 3 /\ Len(last.chunks) = 3
    /\ last.doc[1].level = 2 /\ last.doc[2].level = 1 /\ last.doc[3].level = 3
    /\ Len(last.chunks[3].heading_hierarchy) = 2

\* ----------------------------------------------------------------------
\* Order of the writes of index()
\* ----------------------------------------------------------------------
Running == last.op = "index" /\ last.outcome \in {"running", "returned", "raised"}
Done(P(_)) == \E i \in 1..Len(last.done) : P(last.done[i])
Todo(P(_)) == \E i \in 1..Len(last.todo) : P(last.todo[i])
IsNodeCall(c) == c.call = "add_node"
IsEdgeCall(c) == c.call = "add_edge"
IsContains(c) == c.call = "add_edge" /\ c.label = "CONTAINS"
IsRelation(c) == c.call = "add_edge" /\ c.label = "relation"
IsSaveStats(c) == c.call = "save_stats"
IsEntityNode(c) == c.call = "add_node" /\ c.label \in {"Entity", "Tag"}
IsFileNode(c) == c.call = "add_node" /\ c.label = "File"
IsSectionNode(c) == c.call = "add_node" /\ c.label = "Section"
\* The ids of the nodes that the calls of the run create.
RunNodes ==
    {c.id : c \in {x \in Range(last.done \o last.todo) : IsNodeCall(x)}}

\* C24: in a run of index() no node is upserted after the first add_edge
\* (entity and tag nodes come before file nodes, file nodes before section
\* nodes), no relation edge is added after a CONTAINS edge, the stats are
\* saved after every other store write, and no edge between two nodes of
\* the run is skipped for a missing endpoint.
C24_PopulateOrder ==
    Running
    => /\ Done(IsEdgeCall) => ~Todo(IsNodeCall)
       /\ Done(IsFileNode) => ~Todo(IsEntityNode)
       /\ Done(IsSectionNode) => ~Todo(IsFileNode)
       /\ Done(IsContains) => ~Todo(IsRelation)
       /\ Done(IsSaveStats) => last.todo = <<>>
       /\ \A i \in 1..Len(last.skipped) :
              ~({last.skipped[i].source_id, last.skipped[i].target_id} \subseteq RunNodes)
\* A completed run that added entity, file and section nodes, relation
\* edges and CONTAINS edges.
C24_Witness ==
    /\ last.op = "index" /\ last.outcome = "returned"
    /\ Done(IsEntityNode) /\ Done(IsFileNode) /\ Done(IsSectionNode)
    /\ Done(IsRelation) /\ Done(IsContains) /\ Done(IsSaveStats)
    /\ edges # {}

\* C28: a run of index() that an exception leaves before save_stats leaves
\* the persisted IndexStats as they were before the call.
C28_AbortKeepsStats ==
    (last.op = "index" /\ last.outcome = "raised") => stats = last.stats_before
\* A second run that aborts after its first writes, the first run having
\* saved its stats.
C28_Witness ==
    /\ last.op = "index" /\ last.outcome = "raised"
    /\ last.stats_before.present
    /\ last.done # <<>>
    /\ last.new_stats # last.stats_before


\* ----------------------------------------------------------------------
\* Properties of the graph engine inside search
\* ----------------------------------------------------------------------
\* The ids get_neighbors(seed, max_hops) reports for the graph as it is.
NeighborIds(seed, max_hops) ==
    {b[2] : b \in get_neighbors(nodes, edges, seed, max_hops)}
\* The scored candidates of the graph engine of the search that returned.
GraphCandidates ==
    GraphSearch(nodes, edges, last.seed_ids, last.pool_size, last.row_order)

\* C25: the graph engine never returns a seed: no id of seed_chunk_ids is
\* among its hits, also when a seed is a neighbour of another seed.
C25_GraphNeverReturnsSeed ==
    Returned("search") =>
        /\ Range(last.graph_hits) \cap Range(last.seed_ids) = {}
        /\ \A i \in 1..Len(GraphCandidates) :
              GraphCandidates[i].id \notin Range(last.seed_ids)
\* A search with two seeds, one within two hops of the other, whose graph
\* engine returned a hit.
C25_Witness ==
    /\ Returned("search") /\ last.graph_hits # <<>>
    /\ \E s, t \in Range(last.seed_ids) : s # t /\ t \in NeighborIds(s, 2)

\* The plain sum, in quarters, of the weights of the rows of
\* get_neighbors(s, max_hops=2) that name id, over the seeds s.
RECURSIVE PlainWeightSum(_, _)
PlainWeightSum(seeds, id) ==
    IF seeds = <<>> THEN 0
    ELSE 4 * Cardinality({b \in get_neighbors(nodes, edges, seeds[1], 2) : b[2] = id})
         + PlainWeightSum(Tail(seeds), id)
\* C26: the graph score of a candidate is the plain sum of the weights of
\* the 2-hop rows that name it over the seeds; with weight 1 for every row
\* it is the number of seeds that reach it within two hops, one-hop and
\* two-hop neighbours counted alike.
C26_ScoreIsPlainSum ==
    Returned("search") =>
        \A i \in 1..Len(GraphCandidates) :
            /\ GraphCandidates[i].score
                  = PlainWeightSum(last.seed_ids, GraphCandidates[i].id)
            /\ GraphCandidates[i].score
                  = 4 * Cardinality({s \in Range(last.seed_ids) :
                                        GraphCandidates[i].id \in NeighborIds(s, 2)})

\* C29: in hybrid mode the graph hits are disjoint from the semantic and
\* the BM25 hits of the same search, no result lists "graph" together with
\* "semantic" or "bm25", and the fused score of a graph hit is the
\* reciprocal of its graph rank alone.
C29_GraphHitsDisjoint ==
    (Returned("search") /\ last.mode = "hybrid") =>
        /\ Range(last.graph_hits)
              \cap (Range(last.semantic_hits) \cup Range(last.bm25_hits)) = {}
        /\ \A i \in 1..Len(last.results) :
              "graph" \in last.results[i].matched_engines
                  => last.results[i].matched_engines = {"graph"}
        /\ \A i \in 1..Len(last.rrf) :
              last.rrf[i].id \in Range(last.graph_hits)
                  => ScoreEqual(last.rrf[i].score,
                                AddReciprocal(Zero,
                                    fusion_k + IndexOf(last.graph_hits,
                                                       last.rrf[i].id)))
\* A hybrid search with semantic and BM25 hits whose results hold one found
\* by the graph engine and one found by another engine.
C29_Witness ==
    /\ Returned("search") /\ last.mode = "hybrid"
    /\ last.semantic_hits # <<>> /\ last.bm25_hits # <<>>
    /\ \E i, j \in 1..Len(last.results) :
          /\ "graph" \in last.results[i].matched_engines
          /\ "graph" \notin last.results[j].matched_engines


\* ----------------------------------------------------------------------
\* Properties of the structural extractor
\* ----------------------------------------------------------------------
\* The chunk of the extractor's input that has the id.
ChunkOf(id) ==
    last.chunks[CHOOSE i \in 1..Len(last.chunks) : last.chunks[i].chunk_id = id]
\* C30: for every PARENT_OF relation (p, c) the extractor emits over the
\* chunks of a multi-file index, p and c are chunks of the same file, p is
\* not c, and p's heading_hierarchy is c's without its last heading.
C30_ParentInSameFile ==
    Returned("extract") =>
        \A i \in 1..Len(last.relations) :
            LET p == ChunkOf(last.relations[i].source_id)
                c == ChunkOf(last.relations[i].target_id)
            IN /\ p.file_path = c.file_path
               /\ p # c
               /\ p.heading_hierarchy
                     = SubSeq(c.heading_hierarchy, 1, Len(c.heading_hierarchy) - 1)


\* ----------------------------------------------------------------------
\* Properties of the reranker's length penalty
\* ----------------------------------------------------------------------
IsShort(row) == row.text_length < min_length
\* C27: the length penalty only downranks: for every chunk whose text is
\* shorter than min_length, whatever its raw score, the adjusted score is
\* not higher than the raw score; it is not above the adjusted score of a
\* chunk of at least min_length with the same raw score; and the chunk does
\* not pass the score_threshold filter when its raw score is below the
\* threshold.
C27_PenaltyOnlyDownranks ==
    Returned("rerank") =>
        \A i \in 1..Len(last.rows) :
            IsShort(last.rows[i]) =>
                /\ ~ ScoreGreater(last.adjusted_scores[i], <<last.rows[i].score, 1>>)
                /\ \A j \in 1..Len(last.rows) :
                      (~ IsShort(last.rows[j]) /\ last.rows[j].score = last.rows[i].score)
                          => ~ ScoreGreater(last.adjusted_scores[i],
                                            last.adjusted_scores[j])
                /\ last.rows[i].score < score_threshold
                      => \A k \in 1..Len(last.scored) :
                            last.scored[k].id # last.rows[i].chunk_id

====
